---- MODULE Spec2Model ----
(***************************************************************************)
(* Model of bin/configure.py (dmrub/ansible-project): the layered          *)
(* configuration model (AnsibleConfig / MainConfig), the AttrMerger, the   *)
(* marshmallow schema fields (PathField, VaultIdField), the Configurator   *)
(* and the default run of main().                                          *)
(*                                                                         *)
(* Strings are sequences of tokens: "/" is the path separator, "@" the     *)
(* vault-id separator, "~" the home marker, "." and ".." the special path  *)
(* components; every other token is an opaque piece of a name.             *)
(* Optional values are sequences of length <= 1: None == <<>>.             *)
(***************************************************************************)
EXTENDS Integers, Sequences, FiniteSets, TLC

VARIABLES
    m_pc,        \* merge harness: "idle" | "ready" | "done"
    m_base,      \* MainConfig: the object merge() is called on
    m_overlay,   \* MainConfig: the `other` argument
    m_options,   \* merge_options mapping handed to AttrMerger
    m_result,    \* MainConfig after merge()
    c_pc,        \* codec harness: "idle" | "start" | "encoded" | "decoded",
                 \*   or "raw" | "loaded" where a raw mapping is decoded
    c_cfg,       \* MainConfig handed to schema.dump
    c_ctx,       \* ConfigContext of the dump
    c_dict,      \* the dumped mapping, then handed to schema.load
    c_out,       \* result of schema.load: [ok, config]
    c_fs,        \* paths that exist in the file system during the load
    k_pc,        \* Configurator: "idle" | "new" | "loaded" | "failed" | "saved"
                 \*   | "saved_again"
    k_config_files, \* the config_files argument of Configurator()
    disk,        \* the file system: real path -> File
    k_config,    \* Configurator._config
    k_initial,   \* Configurator._initial_config_dict
    k_logged,    \* load_config_dict logged an exception
    k_calls,     \* number of setter calls since the load
    k_save,      \* the arguments and the outcome of the call of save()
    a_pc,        \* main: "idle" | "start" | "tools_ok" | "loaded" |
                 \*       "configured" | "saved" | "done"
    a_args,      \* the parsed command line of main
    a_file,      \* what the default config file held when main started
    a_log,       \* the failure of the load was logged
    a_printed,   \* main printed the configuration
    a_rc,        \* the return code of main: None while it runs
    v_pc,        \* vault command: "idle" | "start" | "done"
    v_cmd,       \* the vault command that is run
    v_vault_files,      \* the configured vault files: [name, kind] each
    v_inventory_vaults, \* the encrypted files below the inventory directories
    v_vault_ids, \* the labels of the configured vault ids
    v_out,       \* what the command did: [rc, raised, calls]
    b_pc,        \* backups: "idle" | "start" | "backed_up" | "saved"
    b_fs,        \* the file system of the backups: real path -> File
    b_versions,  \* the Files the saved file held earlier and holds no more
    b_saves,     \* number of calls made so far
    b_out,       \* the last call: [raised, result, refused]
    s_pc,        \* shell export: "idle" | "start" | "done"
    s_dict,      \* the dict_value argument: a sequence of <<key, value>> pairs
    s_prefix,    \* the var_prefix argument
    s_export,    \* the export_vars argument
    s_lines,     \* the list dict_to_shell_vars returned
    r_pc,        \* a run of main and its effects: "idle" | "start" | "loaded" |
                 \*   "prepared" | "configured" | "reconfigured" | "saved" | "done"
    r_args,      \* the command line: [func, option, reconfigure, read_only]
    r_env,       \* what the run finds: [config_dir, password_file, pwd_file,
                 \*   vault_files, vault_ids]
    r_in,        \* what the user and the children answer: [choice, id_choice,
                 \*   status]
    r_done,      \* the changes the run has made outside its memory
    r_out,       \* [rc, raised, cancelled]: how main ended
    f_pc,        \* find_all_vaults: "idle" | "start" | "done"
    f_vault_files, \* the configured vault files: [name, kind] each
    f_walk,      \* the files os.walk meets below the inventories, in order
    f_found,     \* the files find_all_vaults yielded
    x_pc,        \* to_shell_vars: "idle" | "start" | "done"
    x_var_name,  \* the variable preprocess_shell_var is called for
    x_value,     \* its serialized value: the configured file names
    x_inventories, \* the configured inventories: [path, isdir] each
    x_out        \* [value, shell_commands]: what preprocess_shell_var returned

mergeVars == <<m_pc, m_base, m_overlay, m_options, m_result>>
codecVars == <<c_pc, c_cfg, c_ctx, c_dict, c_out, c_fs>>
cfgVars == <<k_pc, k_config_files, disk, k_config, k_initial, k_logged, k_calls,
             k_save>>

mainVars == <<a_pc, a_args, a_file, a_log, a_printed, a_rc>>

vaultVars == <<v_pc, v_cmd, v_vault_files, v_inventory_vaults, v_vault_ids, v_out>>
backupVars == <<b_pc, b_fs, b_versions, b_saves, b_out>>
shellVars == <<s_pc, s_dict, s_prefix, s_export, s_lines>>
runVars == <<r_pc, r_args, r_env, r_in, r_done, r_out>>
findVars == <<f_pc, f_vault_files, f_walk, f_found>>
exportVars == <<x_pc, x_var_name, x_value, x_inventories, x_out>>
moreVars == <<findVars, exportVars>>
toolVars == <<vaultVars, backupVars, shellVars, runVars, moreVars>>

vars == <<mergeVars, codecVars, cfgVars, mainVars, toolVars>>

\* ------------------------------------------------------------------ bounds
MaxLen == 2          \* longest list drawn for a list-typed field
MaxConfigFiles == 3  \* most config files given to one Configurator
MaxPolicyLen == 2    \* longest $replace_vars list drawn
MaxSetterCalls == 2  \* setter calls on one Configurator
MaxSaves == 3        \* calls of save_config_dict and backup_file in a row
MaxKeyLen == 2       \* most characters of a key of an exported mapping
MaxInventories == 2  \* configured inventories of an export
MaxExportFiles == 2  \* configured files of one exported list variable

\* ------------------------------------------------------------- generic helpers
None == <<>>
Some(x) == <<x>>
IsNone(o) == o = <<>>

Range(s) == {s[i] : i \in 1..Len(s)}

SeqsUpTo(S, n) == UNION {[1..k -> S] : k \in 0..n}

EmptyDict == [k \in {} |-> <<>>]

IsPrefix(p, s) == Len(p) <= Len(s) /\ SubSeq(s, 1, Len(p)) = p

HasDuplicates(s) == \E i, j \in 1..Len(s) : i # j /\ s[i] = s[j]

\* ------------------------------------------------------------ strings, paths
RECURSIVE SplitOn(_, _)
\* str.split(sep): the pieces between the separators (possibly empty)
SplitOn(s, sep) ==
    IF \A i \in 1..Len(s) : s[i] # sep
    THEN <<s>>
    ELSE LET i == CHOOSE i \in 1..Len(s) :
                    s[i] = sep /\ \A j \in 1..(i - 1) : s[j] # sep
         IN <<SubSeq(s, 1, i - 1)>> \o SplitOn(SubSeq(s, i + 1, Len(s)), sep)

RECURSIVE JoinWith(_, _)
\* sep.join(parts)
JoinWith(parts, sep) ==
    IF parts = <<>> THEN <<>>
    ELSE IF Len(parts) = 1 THEN parts[1]
    ELSE parts[1] \o <<sep>> \o JoinWith(Tail(parts), sep)

IsPathComponent(c) == c # <<>> /\ c # <<".">>

\* pathlib.PurePosixPath(s): empty and "." components are dropped, ".." is kept
PurePath(s) ==
    [abs   |-> Len(s) > 0 /\ s[1] = "/",
     parts |-> SelectSeq(SplitOn(s, "/"), IsPathComponent)]

\* str(path)
PathStr(p) ==
    IF p.parts = <<>>
    THEN (IF p.abs THEN <<"/">> ELSE <<".">>)
    ELSE (IF p.abs THEN <<"/">> ELSE <<>>) \o JoinWith(p.parts, "/")

\* path / s  (PurePath.__truediv__): an absolute right operand replaces the left
JoinPath(p, s) ==
    LET q == PurePath(s)
    IN IF q.abs THEN q ELSE [abs |-> p.abs, parts |-> p.parts \o q.parts]

\* path.parent
Parent(p) ==
    IF p.parts = <<>> THEN p
    ELSE [abs |-> p.abs, parts |-> SubSeq(p.parts, 1, Len(p.parts) - 1)]

\* path.relative_to(base) succeeds (does not raise ValueError)
IsRelativeTo(p, base) == p.abs = base.abs /\ IsPrefix(base.parts, p.parts)

\* path.relative_to(base), where it succeeds
RelativeTo(p, base) ==
    [abs |-> FALSE, parts |-> SubSeq(p.parts, Len(base.parts) + 1, Len(p.parts))]

\* --------------------------------------------------------------- data model
\* class VaultId: label and source, equality by both (__eq__)
VaultIdOf(label, source) == [label |-> label, source |-> source]

ListAttrs == {"inventories", "vault_ids", "vault_password_files",
              "user_scripts", "vars_files", "vault_files"}

PathListAttrs == ListAttrs \ {"vault_ids"}

ScalarAttrs == {"config_file", "private_key_file", "user",
                "vault_encrypt_identity", "log_path"}

\* AnsibleConfig(): the dataclass defaults
AnsibleConfig ==
    [config_file            |-> None,
     inventories            |-> <<>>,
     vault_ids              |-> <<>>,
     vault_password_files   |-> <<>>,
     user_scripts           |-> <<>>,
     vars_files             |-> <<>>,
     vault_files            |-> <<>>,
     private_key_file       |-> None,
     user                   |-> None,
     vault_encrypt_identity |-> None,
     log_path               |-> None,
     env_vars               |-> EmptyDict]

\* ConfigContext(config_file=..., serialize_relative_paths=...)
ConfigContext(config_file, relative) ==
    [config_file |-> config_file, create_model |-> TRUE,
     serialize_relative_paths |-> relative]

\* ConfigContext.config_dir
config_dir(ctx) == Parent(ctx.config_file)

\* MainConfig(): default settings, no context
MainConfig == [ansible |-> AnsibleConfig, config_context |-> None]

\* ------------------------------------------------------------------ merger
REPLACE_VARS_MERGE_ACTION == "$replace_vars"

\* AttrMerger.__init__
AttrMerger(merge_options) ==
    [replace_vars    |-> IF REPLACE_VARS_MERGE_ACTION \in DOMAIN merge_options
                         THEN Range(merge_options[REPLACE_VARS_MERGE_ACTION])
                         ELSE {},
     cur_attr_name   |-> <<>>,
     attr_name_stack |-> <<>>]

\* AttrMerger.begin_attr: a dotted name is the sequence of its segments
begin_attr(merger, name) ==
    [merger EXCEPT
        !.attr_name_stack = Append(@, merger.cur_attr_name),
        !.cur_attr_name = IF merger.cur_attr_name # <<>>
                          THEN merger.cur_attr_name \o <<name>>
                          ELSE <<name>>]

\* AttrMerger.end_attr
end_attr(merger) ==
    [merger EXCEPT
        !.cur_attr_name = merger.attr_name_stack[Len(merger.attr_name_stack)],
        !.attr_name_stack = SubSeq(@, 1, Len(@) - 1)]

\* isinstance(value, collections.abc.Sequence) for the value of an attribute:
\* the list-typed fields hold lists, env_vars a dict, which is no Sequence
IsSequenceAttr(attr_name) == attr_name \in ListAttrs

\* the list comprehension of merge_attr: items of that_value not in this_value
NotInThis(this_value, that_value) ==
    LET Keep(item) == item \notin Range(this_value)
    IN SelectSeq(that_value, Keep)

\* mutant: every overlay item is appended, present in the base or not
MergeAttrAppendAll(merger, this_obj, that_obj, attr_name) ==
    LET m1 == begin_attr(merger, attr_name)
        new_value ==
            IF m1.cur_attr_name \in m1.replace_vars THEN that_obj[attr_name]
            ELSE IF IsSequenceAttr(attr_name)
                 THEN this_obj[attr_name] \o that_obj[attr_name]
                 ELSE that_obj[attr_name]
    IN [merger |-> end_attr(m1),
        obj |-> [this_obj EXCEPT ![attr_name] = new_value]]

\* mutant: the policy is looked up by the bare attribute name
MergeAttrBareName(merger, this_obj, that_obj, attr_name) ==
    LET m1 == begin_attr(merger, attr_name)
        new_value ==
            IF <<attr_name>> \in m1.replace_vars THEN that_obj[attr_name]
            ELSE IF IsSequenceAttr(attr_name)
                 THEN this_obj[attr_name]
                          \o NotInThis(this_obj[attr_name], that_obj[attr_name])
                 ELSE that_obj[attr_name]
    IN [merger |-> end_attr(m1),
        obj |-> [this_obj EXCEPT ![attr_name] = new_value]]

\* AttrMerger.merge_attr: returns the merger and this_obj after the call
merge_attr(merger, this_obj, that_obj, attr_name) ==
    LET m1 == begin_attr(merger, attr_name)
        do_replace_attr == m1.cur_attr_name \in m1.replace_vars
        this_value == this_obj[attr_name]
        that_value == that_obj[attr_name]
        new_value ==
            IF do_replace_attr THEN that_value
            ELSE IF IsSequenceAttr(attr_name)
                 THEN this_value \o NotInThis(this_value, that_value)
                 ELSE that_value
    IN [merger |-> end_attr(m1),
        obj |-> [this_obj EXCEPT ![attr_name] = new_value]]

\* the attribute names AnsibleConfig.merge hands to merge_attr, in order
MergedAttrNames == <<"inventories", "vault_ids", "vault_password_files",
                     "user_scripts", "vars_files", "vault_files", "env_vars">>

RECURSIVE MergeAttrs(_, _, _, _)
\* the for loop of AnsibleConfig.merge
MergeAttrs(merger, this_obj, that_obj, names) ==
    IF names = <<>> THEN [merger |-> merger, obj |-> this_obj]
    ELSE LET r == merge_attr(merger, this_obj, that_obj, Head(names))
         IN MergeAttrs(r.merger, r.obj, that_obj, Tail(names))

\* AnsibleConfig.merge: scalars are assigned from other unconditionally
AnsibleConfig_merge(self, other, merger) ==
    LET s1 == [self EXCEPT !.config_file = other.config_file]
        r  == MergeAttrs(merger, s1, other, MergedAttrNames)
    IN [merger |-> r.merger,
        obj |-> [r.obj EXCEPT
                    !.private_key_file = other.private_key_file,
                    !.user = other.user,
                    !.vault_encrypt_identity = other.vault_encrypt_identity,
                    !.log_path = other.log_path]]

\* mutant: the merged model keeps the config context it had
MergeKeepsContext(self, other, merger) ==
    LET m1 == begin_attr(merger, "ansible")
        r  == AnsibleConfig_merge(self.ansible, other.ansible, m1)
    IN [ansible |-> r.obj, config_context |-> self.config_context]

\* MainConfig.merge
MainConfig_merge(self, other, merger) ==
    LET m1 == begin_attr(merger, "ansible")
        r  == AnsibleConfig_merge(self.ansible, other.ansible, m1)
    IN [ansible |-> r.obj, config_context |-> other.config_context]

\* -------------------------------------------------------- os.path, filesystem
\* HOME = os.path.expanduser("~")
HOME == <<"/", "home", "/", "u">>

\* the process's current working directory
Cwd == [abs |-> TRUE, parts |-> <<<<"work">>>>]

\* the symbolic links of the file system: link path -> target path
Symlinks == [p \in {[abs |-> TRUE, parts |-> <<<<"lnk">>>>]} |->
                [abs |-> TRUE, parts |-> <<<<"etc">>>>]]

\* os.path.expanduser: "~" alone or before "/" becomes HOME; "~name" is looked
\* up in the password database, where no such user exists: unchanged
expanduser(s) ==
    IF s = <<>> \/ s[1] # "~" THEN s
    ELSE IF Len(s) = 1 \/ s[2] = "/"
         THEN HOME \o SubSeq(s, 2, Len(s))
         ELSE s

RECURSIVE NormParts(_, _)
\* os.path.normpath on the components of an absolute path: ".." pops
NormParts(done, todo) ==
    IF todo = <<>> THEN done
    ELSE IF Head(todo) = <<"..">>
         THEN NormParts(IF done = <<>> THEN done
                        ELSE SubSeq(done, 1, Len(done) - 1), Tail(todo))
         ELSE NormParts(Append(done, Head(todo)), Tail(todo))

\* os.path.abspath(s): join with the working directory, then normpath
abspath(s) ==
    PathStr([abs |-> TRUE, parts |-> NormParts(<<>>, JoinPath(Cwd, s).parts)])

RECURSIVE RealParts(_, _)
\* os.path.realpath, component by component: ".." pops, a prefix that is a
\* symbolic link is replaced by its target
RealParts(done, todo) ==
    IF todo = <<>> THEN done
    ELSE IF Head(todo) = <<"..">>
         THEN RealParts(IF done = <<>> THEN done
                        ELSE SubSeq(done, 1, Len(done) - 1), Tail(todo))
         ELSE LET cur == [abs |-> TRUE, parts |-> Append(done, Head(todo))]
              IN RealParts(IF cur \in DOMAIN Symlinks THEN Symlinks[cur].parts
                           ELSE cur.parts, Tail(todo))

\* os.path.realpath(s)
realpath(s) ==
    PathStr([abs |-> TRUE, parts |-> RealParts(<<>>, JoinPath(Cwd, s).parts)])

\* os.path.isabs(s)
isabs(s) == Len(s) > 0 /\ s[1] = "/"

\* os.path.exists(s) in a file system whose existing paths are `fs`
exists(fs, s) == realpath(s) \in fs

\* auto_realpath(path, base_dir=None, force_abs_path=True), as VaultId calls it
auto_realpath(fs, path) ==
    IF isabs(path) /\ exists(fs, path) THEN realpath(path)
    ELSE IF exists(fs, path) THEN realpath(path)
    ELSE path

\* ------------------------------------------------------------------ VaultId
\* VaultId(vault_id): split on the first "@"; a path source goes through
\* auto_realpath
VaultId(fs, vault_id) ==
    LET has_at == \E i \in 1..Len(vault_id) : vault_id[i] = "@"
        label  == IF has_at THEN SplitOn(vault_id, "@")[1] ELSE vault_id
        source == IF has_at
                  THEN SubSeq(vault_id, Len(label) + 2, Len(vault_id))
                  ELSE <<>>
    IN VaultIdOf(label,
                 IF source # <<>> /\ source # <<"prompt">>
                 THEN auto_realpath(fs, source)
                 ELSE source)

\* VaultId.id / __str__
VaultId_id(v) == v.label \o <<"@">> \o v.source

\* VaultId.source_is_path
source_is_path(v) == v.source # <<>> /\ v.source # <<"prompt">>

\* VaultId.relative_to(base_dir) does not raise
VaultId_can_relative_to(v, base_dir) ==
    source_is_path(v) => IsRelativeTo(PurePath(v.source), base_dir)

\* VaultId.relative_to(base_dir)
VaultId_relative_to(v, base_dir) ==
    IF source_is_path(v)
    THEN VaultIdOf(v.label, PathStr(RelativeTo(PurePath(v.source), base_dir)))
    ELSE v

\* ------------------------------------------------------------ schema fields
\* PathField._serialize
PathField_serialize(value, ctx) ==
    IF ctx.serialize_relative_paths /\ IsRelativeTo(value, config_dir(ctx))
    THEN PathStr(RelativeTo(value, config_dir(ctx)))
    ELSE PathStr(value)

\* PathField._deserialize
PathField_deserialize(svalue, ctx) == JoinPath(config_dir(ctx), expanduser(svalue))

\* VaultIdField._serialize
VaultIdField_serialize(value, ctx) ==
    IF ctx.serialize_relative_paths /\ VaultId_can_relative_to(value, config_dir(ctx))
    THEN VaultId_id(VaultId_relative_to(value, config_dir(ctx)))
    ELSE VaultId_id(value)

\* VaultIdField._deserialize
VaultIdField_deserialize(fs, svalue, ctx) ==
    LET vault_id == VaultId(fs, svalue)
    IN IF source_is_path(vault_id)
       THEN VaultIdOf(vault_id.label,
                      PathStr(JoinPath(config_dir(ctx),
                                       expanduser(PathStr(PurePath(vault_id.source))))))
       ELSE vault_id

PathScalarAttrs == {"config_file", "private_key_file", "log_path"}

AllAttrs == ScalarAttrs \cup ListAttrs \cup {"env_vars"}

\* what each field of AnsibleConfigSchema dumps for the attribute's value; a
\* scalar dumps to None or to Some(string)
DumpAttr(value, attr, ctx) ==
    IF attr \in PathScalarAttrs
    THEN (IF IsNone(value) THEN None ELSE Some(PathField_serialize(value[1], ctx)))
    ELSE IF attr \in PathListAttrs
    THEN [i \in 1..Len(value) |-> PathField_serialize(value[i], ctx)]
    ELSE IF attr = "vault_ids"
    THEN [i \in 1..Len(value) |-> VaultIdField_serialize(value[i], ctx)]
    ELSE value

\* BaseSchema.remove_none_values applied to the dumped AnsibleConfig: the keys
\* that stay are those whose dumped value is not None
AnsibleConfigSchema_dump(cfg, ctx) ==
    LET kept == {a \in AllAttrs : ~(a \in ScalarAttrs /\ IsNone(cfg[a]))}
    IN [a \in kept |-> DumpAttr(cfg[a], a, ctx)]

\* MainConfigSchema.dump: config_context is no field of the schema
MainConfigSchema_dump(main, ctx) ==
    [k \in {"ansible"} |-> AnsibleConfigSchema_dump(main.ansible, ctx)]

\* what each field of AnsibleConfigSchema loads from the raw value
LoadAttr(fs, raw, attr, ctx) ==
    IF attr \in PathScalarAttrs
    THEN (IF IsNone(raw) THEN None ELSE Some(PathField_deserialize(raw[1], ctx)))
    ELSE IF attr \in PathListAttrs
    THEN [i \in 1..Len(raw) |-> PathField_deserialize(raw[i], ctx)]
    ELSE IF attr = "vault_ids"
    THEN [i \in 1..Len(raw) |-> VaultIdField_deserialize(fs, raw[i], ctx)]
    ELSE raw

\* Schema.load raises ValidationError: a key no field of the schema declares
SchemaViolation(config_dict) ==
    \/ ~(DOMAIN config_dict \subseteq {"ansible"})
    \/ /\ "ansible" \in DOMAIN config_dict
       /\ ~(DOMAIN config_dict["ansible"] \subseteq AllAttrs)

\* AnsibleConfigSchema.load and make_object: AnsibleConfig(**data)
AnsibleConfigSchema_load(fs, data, ctx) ==
    [a \in AllAttrs |->
        IF a \in DOMAIN data THEN LoadAttr(fs, data[a], a, ctx)
        ELSE AnsibleConfig[a]]

\* MainConfigSchema.load and make_object, where the mapping is valid
MainConfigSchema_load(fs, config_dict, ctx) ==
    [ansible |-> IF "ansible" \in DOMAIN config_dict
                 THEN AnsibleConfigSchema_load(fs, config_dict["ansible"], ctx)
                 ELSE AnsibleConfig,
     config_context |-> Some(ctx)]

\* ------------------------------------------------------------ config files
\* a file of the file system: kind is "yaml" (a YAML mapping, in dict),
\* "malformed" (yaml.load raises), "partial" (cut short by a failed write)
\* or "data" (any other file)
File(kind, dict) == [kind |-> kind, dict |-> dict]

Put(f, k, v) == [x \in DOMAIN f \cup {k} |-> IF x = k THEN v ELSE f[x]]
Remove(f, k) == [x \in DOMAIN f \ {k} |-> f[x]]
Restrict(f, keys) == [x \in DOMAIN f \cap keys |-> f[x]]

\* CONFIG_DEFAULTS
CONFIG_DEFAULTS ==
    [k \in {"ansible"} |->
        [config_file |-> Some(<<"ansible.cfg">>),
         inventories |-> << <<"inventory">> >>]]

\* the top-level keys that start with "$"
MergeActionKeys == {REPLACE_VARS_MERGE_ACTION}

\* isinstance(v, Mapping) and isinstance(b[k], Mapping) for the values of key k
IsMappingKey(k) == k \in {"ansible", "env_vars"}

RECURSIVE simple_dict_merge(_, _)
\* simple_dict_merge(a, b)
simple_dict_merge(a, b) ==
    [k \in DOMAIN a \cup DOMAIN b |->
        IF k \notin DOMAIN b THEN a[k]
        ELSE IF k \notin DOMAIN a THEN b[k]
        ELSE IF IsMappingKey(k) THEN simple_dict_merge(a[k], b[k])
        ELSE b[k]]

\* load_config_dict(filename, defaults): yaml.load's exception is logged and
\* swallowed, config_dict stays {} and the defaults are merged in
load_config_dict(fs, filename, defaults) ==
    LET failed == /\ filename # <<>>
                  /\ exists(DOMAIN fs, filename)
                  /\ fs[realpath(filename)].kind # "yaml"
        loaded == IF filename # <<>> /\ exists(DOMAIN fs, filename) /\ ~failed
                  THEN fs[realpath(filename)].dict
                  ELSE EmptyDict
    IN [dict   |-> IF defaults # EmptyDict
                   THEN simple_dict_merge(defaults, loaded) ELSE loaded,
        logged |-> failed,
        raised |-> FALSE]

\* --------------------------------------------------------------- Configurator
\* Configurator.config_to_dict raises: _config.config_context is None
config_to_dict_raises(config) == IsNone(config.config_context)

\* mutant: the comparison dump leaves the remote user out
ConfigToDictNoUser(config) ==
    LET full == MainConfigSchema_dump(
                    config, ConfigContext(config.config_context[1].config_file, FALSE))
    IN [k \in DOMAIN full |-> Restrict(full[k], AllAttrs \ {"user"})]

\* Configurator.config_to_dict: the dump in absolute-path mode
config_to_dict(config) ==
    MainConfigSchema_dump(
        config, ConfigContext(config.config_context[1].config_file, FALSE))

\* Configurator.config_changed
config_changed(config, initial) == config_to_dict(config) # initial

\* the single-file branch of Configurator.__init__ once load_config_dict has
\* returned ld: MainConfigSchema(context=...).load(config_dict)
LoadSingleFrom(fs, ld, ctx) ==
    IF ld.raised \/ SchemaViolation(ld.dict)
    THEN [raised |-> TRUE, logged |-> ld.logged, config |-> MainConfig]
    ELSE [raised |-> FALSE, logged |-> ld.logged,
          config |-> MainConfigSchema_load(DOMAIN fs, ld.dict, ctx)]

\* the single-file branch of Configurator.__init__
LoadSingle(fs, config_file) ==
    LoadSingleFrom(fs, load_config_dict(fs, config_file, CONFIG_DEFAULTS),
                   ConfigContext(PurePath(realpath(config_file)), TRUE))

RECURSIVE LoadMany(_, _, _, _, _)
\* one iteration of the loop of the multi-file branch once load_config_dict has
\* returned ld for the head of config_files: the "$" keys are popped, the rest
\* is loaded and merged into the model so far, and the loop goes on with the
\* popped mapping as config_dict
LoadManyFrom(fs, config_files, ld, ctx, merged, logged) ==
    LET merge_options == Restrict(ld.dict, MergeActionKeys)
        popped        == Restrict(ld.dict, DOMAIN ld.dict \ MergeActionKeys)
    IN IF ld.raised \/ SchemaViolation(popped)
       THEN [raised |-> TRUE, logged |-> logged \/ ld.logged,
             config |-> MainConfig]
       ELSE LoadMany(fs, Tail(config_files), popped,
                     Some(IF IsNone(merged)
                          THEN MainConfigSchema_load(DOMAIN fs, popped, ctx)
                          ELSE MainConfig_merge(
                                   merged[1],
                                   MainConfigSchema_load(DOMAIN fs, popped, ctx),
                                   AttrMerger(merge_options))),
                     logged \/ ld.logged)

\* the loop of the multi-file branch of Configurator.__init__: config_dict is
\* the mapping of the previous iteration, merged the option of the model so far
LoadMany(fs, config_files, config_dict, merged, logged) ==
    IF config_files = <<>>
    THEN [raised |-> FALSE, logged |-> logged, config |-> merged[1]]
    ELSE LoadManyFrom(fs, config_files,
                      load_config_dict(fs, Head(config_files), config_dict),
                      ConfigContext(PurePath(realpath(Head(config_files))), TRUE),
                      merged, logged)

\* the last statement of Configurator.__init__, with r the model the branches
\* above it loaded: self._initial_config_dict = self.config_to_dict()
InitialConfigDict(r) ==
    IF r.raised \/ config_to_dict_raises(r.config)
    THEN [raised |-> TRUE, logged |-> r.logged, config |-> MainConfig,
          initial |-> EmptyDict]
    ELSE [raised |-> FALSE, logged |-> r.logged, config |-> r.config,
          initial |-> config_to_dict(r.config)]

\* Configurator.__init__(config_files): the loaded model and the snapshot
\* _initial_config_dict, or the exception that leaves the constructor
Configurator_init(fs, config_files) ==
    InitialConfigDict(
        IF config_files = <<>>
        THEN [raised |-> FALSE, logged |-> FALSE, config |-> MainConfig]
        ELSE IF Len(config_files) = 1
        THEN LoadSingle(fs, config_files[1])
        ELSE LoadMany(fs, config_files, CONFIG_DEFAULTS, None, FALSE))

RECURSIVE BackupName(_, _)
\* the while loop of backup_file: the first name rpath~, rpath~~, ... not taken
BackupName(fs, bak_rpath) ==
    IF exists(DOMAIN fs, bak_rpath)
    THEN BackupName(fs, bak_rpath \o <<"~">>)
    ELSE bak_rpath

\* mutant: the backup always goes to rpath~
BackupFileOverwrites(fs, path, io) ==
    LET rpath == realpath(path)
    IN IF ~exists(DOMAIN fs, rpath) THEN [raised |-> FALSE, fs |-> fs]
       ELSE IF io = "rename_fails" THEN [raised |-> TRUE, fs |-> fs]
       ELSE [raised |-> FALSE,
             fs |-> Remove(Put(fs, rpath \o <<"~">>, fs[rpath]), rpath)]

\* backup_file(path); io names what the operating system refuses, if anything
backup_file(fs, path, io) ==
    LET rpath == realpath(path)
    IN IF ~exists(DOMAIN fs, rpath) THEN [raised |-> FALSE, fs |-> fs]
       ELSE IF io = "rename_fails" THEN [raised |-> TRUE, fs |-> fs]
       ELSE [raised |-> FALSE,
             fs |-> Remove(Put(fs, BackupName(fs, rpath \o <<"~">>), fs[rpath]),
                           rpath)]

\* save_config_dict after its backup step returned b: open(filename, "w") and
\* yaml.dump, every exception caught and logged
write_config_dict(fs, filename, config_dict, io, b) ==
    IF b.raised
    THEN [result |-> FALSE, raised |-> FALSE,
          backup_failed |-> TRUE, write_attempted |-> FALSE,
          write_failed |-> FALSE, fs |-> fs]
    ELSE IF io = "open_fails"
    THEN [result |-> FALSE, raised |-> FALSE,
          backup_failed |-> FALSE, write_attempted |-> TRUE,
          write_failed |-> TRUE, fs |-> b.fs]
    ELSE IF io = "write_fails"
    THEN [result |-> FALSE, raised |-> FALSE,
          backup_failed |-> FALSE, write_attempted |-> TRUE,
          write_failed |-> TRUE,
          fs |-> Put(b.fs, realpath(filename), File("partial", EmptyDict))]
    ELSE [result |-> TRUE, raised |-> FALSE,
          backup_failed |-> FALSE, write_attempted |-> TRUE,
          write_failed |-> FALSE,
          fs |-> Put(b.fs, realpath(filename), File("yaml", config_dict))]

\* mutant: a failed backup is logged and the file is written all the same
SaveConfigDictWritesAfterFailedBackup(fs, filename, config_dict, do_backup, io) ==
    LET b == IF do_backup THEN backup_file(fs, filename, io)
             ELSE [raised |-> FALSE, fs |-> fs]
    IN [result |-> ~b.raised, raised |-> FALSE,
        backup_failed |-> b.raised, write_attempted |-> TRUE,
        write_failed |-> FALSE,
        fs |-> Put(b.fs, realpath(filename), File("yaml", config_dict))]

\* save_config_dict(filename, config_dict, do_backup)
save_config_dict(fs, filename, config_dict, do_backup, io) ==
    write_config_dict(fs, filename, config_dict, io,
                      IF do_backup THEN backup_file(fs, filename, io)
                      ELSE [raised |-> FALSE, fs |-> fs])

\* what Configurator.save reports when it returns before save_config_dict
SaveNoOp(fs) ==
    [called |-> FALSE, target |-> <<>>, dict |-> EmptyDict,
     result |-> FALSE, raised |-> FALSE, backup_failed |-> FALSE,
     write_attempted |-> FALSE, write_failed |-> FALSE, fs |-> fs]

\* what Configurator.save reports when save_config_dict(target,
\* serialized_config, do_backup) returned r
SaveCalled(target, serialized_config, r) ==
    [called |-> TRUE, target |-> target, dict |-> serialized_config,
     result |-> r.result, raised |-> r.raised,
     backup_failed |-> r.backup_failed,
     write_attempted |-> r.write_attempted,
     write_failed |-> r.write_failed, fs |-> r.fs]

\* "if filename:" of Configurator.save is false: None or the empty string
NoFilename(filename) == IsNone(filename) \/ filename[1] = <<>>

\* the tail of Configurator.save: the dump under the context ctx of the
\* destination and the call of save_config_dict
SaveTo(config, fs, ctx, do_backup, io) ==
    SaveCalled(PathStr(ctx.config_file), MainConfigSchema_dump(config, ctx),
               save_config_dict(fs, PathStr(ctx.config_file),
                                MainConfigSchema_dump(config, ctx), do_backup, io))

\* mutant: force and filename are ignored, an unchanged configuration is
\* never written
SaveIgnoresForce(config, initial, fs, filename, force, do_backup, io) ==
    IF ~config_changed(config, initial) THEN SaveNoOp(fs)
    ELSE SaveTo(config, fs,
                ConfigContext(config.config_context[1].config_file, TRUE),
                do_backup, io)

\* Configurator.save(filename, force, do_backup); filename is None or Some(name)
Configurator_save(config, initial, fs, filename, force, do_backup, io) ==
    IF NoFilename(filename) /\ ~force /\ ~config_changed(config, initial)
    THEN SaveNoOp(fs)
    ELSE SaveTo(config, fs,
                IF ~NoFilename(filename)
                THEN ConfigContext(PurePath(realpath(filename[1])), TRUE)
                ELSE ConfigContext(config.config_context[1].config_file, TRUE),
                do_backup, io)

\* to_list(value) for a list argument, then the "if p" filter
to_list(value) == LET NonEmpty(p) == p # <<>> IN SelectSeq(value, NonEmpty)

\* to_abspath_list(value), each element made a pathlib.Path by the setter
to_abspath_list(value) ==
    LET l == to_list(value) IN [i \in 1..Len(l) |-> PurePath(abspath(l[i]))]

\* the value each Configurator setter stores in the attribute it sets
SetterValue(fs, attr, value) ==
    IF attr \in PathScalarAttrs THEN Some(PurePath(abspath(value)))
    ELSE IF attr \in PathListAttrs THEN to_abspath_list(value)
    ELSE IF attr = "vault_ids"
    THEN LET l == to_list(value) IN [i \in 1..Len(l) |-> VaultId(DOMAIN fs, l[i])]
    ELSE value

\* Configurator.set_ansible_<attr>(value)
set_ansible(config, fs, attr, value) ==
    [config EXCEPT !.ansible[attr] = SetterValue(fs, attr, value)]

\* ------------------------------------------------------- harnesses at rest
IdleMerge ==
    /\ m_pc = "idle"
    /\ m_base = MainConfig
    /\ m_overlay = MainConfig
    /\ m_options = EmptyDict
    /\ m_result = MainConfig

IdleCodec ==
    /\ c_pc = "idle"
    /\ c_cfg = MainConfig
    /\ c_ctx = ConfigContext([abs |-> TRUE, parts |-> <<>>], TRUE)
    /\ c_dict = EmptyDict
    /\ c_out = [ok |-> FALSE, config |-> MainConfig]
    /\ c_fs = {}

\* the record of a save() that was not called
NoSave ==
    [filename |-> None, force |-> FALSE, do_backup |-> FALSE, io |-> "ok",
     called |-> FALSE, target |-> <<>>, dict |-> EmptyDict,
     result |-> FALSE, raised |-> FALSE, backup_failed |-> FALSE,
     write_attempted |-> FALSE, write_failed |-> FALSE]

IdleCfg ==
    /\ k_pc = "idle"
    /\ k_config_files = <<>>
    /\ disk = EmptyDict
    /\ k_config = MainConfig
    /\ k_initial = EmptyDict
    /\ k_logged = FALSE
    /\ k_calls = 0
    /\ k_save = NoSave

NoArgs ==
    [tools |-> TRUE, config_files |-> <<>>, user |-> None, inventory |-> <<>>,
     read_only |-> FALSE, no_backup |-> FALSE, show |-> FALSE]

IdleMain ==
    /\ a_pc = "idle"
    /\ a_args = NoArgs
    /\ a_file = "absent"
    /\ a_log = FALSE
    /\ a_printed = FALSE
    /\ a_rc = None

\* no vault command was run
NoVaultOut == [rc |-> None, raised |-> FALSE, calls |-> <<>>]

IdleVault ==
    /\ v_pc = "idle"
    /\ v_cmd = "none"
    /\ v_vault_files = <<>>
    /\ v_inventory_vaults = <<>>
    /\ v_vault_ids = <<>>
    /\ v_out = NoVaultOut

NoBackupOut == [raised |-> FALSE, result |-> FALSE, refused |-> FALSE]

IdleBackup ==
    /\ b_pc = "idle"
    /\ b_fs = EmptyDict
    /\ b_versions = {}
    /\ b_saves = 0
    /\ b_out = NoBackupOut

IdleShell ==
    /\ s_pc = "idle"
    /\ s_dict = <<>>
    /\ s_prefix = <<>>
    /\ s_export = FALSE
    /\ s_lines = <<>>

NoRunArgs ==
    [func |-> "none", option |-> "none", reconfigure |-> FALSE,
     read_only |-> FALSE]

NoRunEnv ==
    [config_dir |-> TRUE, password_file |-> "none", pwd_file |-> FALSE,
     vault_files |-> <<>>, vault_ids |-> <<>>]

NoRunIn == [choice |-> 0, id_choice |-> 0, status |-> 0]

NoRunOut == [rc |-> None, raised |-> FALSE, cancelled |-> FALSE]

IdleRun ==
    /\ r_pc = "idle"
    /\ r_args = NoRunArgs
    /\ r_env = NoRunEnv
    /\ r_in = NoRunIn
    /\ r_done = {}
    /\ r_out = NoRunOut

IdleFind ==
    /\ f_pc = "idle"
    /\ f_vault_files = <<>>
    /\ f_walk = <<>>
    /\ f_found = <<>>

NoExportOut == [value |-> None, shell_commands |-> <<>>]

IdleExport ==
    /\ x_pc = "idle"
    /\ x_var_name = <<>>
    /\ x_value = <<>>
    /\ x_inventories = <<>>
    /\ x_out = NoExportOut

IdleMore == IdleFind /\ IdleExport

IdleTool == IdleVault /\ IdleBackup /\ IdleShell /\ IdleRun /\ IdleMore

\* ------------------------------------------------- merge harness (SpecMerge)
\* Sample values of the element types
EtcDir == PurePath(<<"/", "etc">>)
PA == PurePath(<<"/", "etc", "/", "a">>)
PB == PurePath(<<"/", "etc", "/", "b">>)
V1 == VaultIdOf(<<"prod">>, <<"/", "etc", "/", "pw">>)
V2 == VaultIdOf(<<"prod">>, <<"prompt">>)

BaseContext == ConfigContext(PurePath(<<"/", "etc", "/", "config.yml">>), TRUE)
OverlayContext == ConfigContext(PurePath(<<"/", "srv", "/", "config.yml">>), TRUE)

\* dotted field paths a $replace_vars list may name
DottedPool == {<<"ansible", "inventories">>, <<"ansible", "vault_ids">>,
               <<"ansible", "vars_files">>, <<"inventories">>, <<"ansible">>}

MergeOptionsPool ==
    {EmptyDict}
    \cup {[k \in {REPLACE_VARS_MERGE_ACTION} |-> l] :
              l \in SeqsUpTo(DottedPool, MaxPolicyLen)}

ScalarPatterns == {{}, ScalarAttrs, {"user"}, {"config_file", "log_path"}}

\* settings whose scalars named in `set` carry the value tagged `tag`
WithScalars(cfg, set, tag) ==
    [a \in DOMAIN cfg |->
        IF a \in set
        THEN (IF a \in {"user", "vault_encrypt_identity"}
              THEN Some(<<tag>>)
              ELSE Some(PurePath(<<"/", "etc", "/", tag>>)))
        ELSE cfg[a]]

\* settings whose path lists are all `pl` and whose vault ids are `vl`
WithLists(cfg, pl, vl) ==
    [a \in DOMAIN cfg |->
        IF a \in PathListAttrs THEN pl
        ELSE IF a = "vault_ids" THEN vl
        ELSE cfg[a]]

EnvPool == {EmptyDict, [k \in {"E"} |-> <<"1">>], [k \in {"E", "F"} |-> <<"2">>]}

InitMergePaths ==
    \E bl \in SeqsUpTo({PA, PB}, MaxLen), ol \in SeqsUpTo({PA, PB}, MaxLen) :
        /\ m_base = [ansible |-> WithLists(AnsibleConfig, bl, <<V1>>),
                     config_context |-> Some(BaseContext)]
        /\ m_overlay = [ansible |-> WithLists(AnsibleConfig, ol, <<V1, V2>>),
                        config_context |-> Some(OverlayContext)]
        /\ m_options \in MergeOptionsPool

InitMergeVaultIds ==
    \E bl \in SeqsUpTo({V1, V2}, MaxLen), ol \in SeqsUpTo({V1, V2}, MaxLen) :
        /\ m_base = [ansible |-> WithLists(AnsibleConfig, <<PA>>, bl),
                     config_context |-> Some(BaseContext)]
        /\ m_overlay = [ansible |-> WithLists(AnsibleConfig, <<PB>>, ol),
                        config_context |-> Some(OverlayContext)]
        /\ m_options \in MergeOptionsPool

InitMergeScalars ==
    \E bs \in ScalarPatterns, os \in ScalarPatterns,
       bl \in SeqsUpTo({PA, PB}, MaxLen), be \in EnvPool, oe \in EnvPool :
        /\ m_base = [ansible |->
                        [WithScalars(WithLists(AnsibleConfig, bl, <<V1>>), bs, "x")
                            EXCEPT !.env_vars = be],
                     config_context |-> Some(BaseContext)]
        /\ m_overlay = [ansible |->
                           [WithScalars(AnsibleConfig, os, "y")
                               EXCEPT !.env_vars = oe],
                        config_context |-> Some(OverlayContext)]
        /\ m_options \in {EmptyDict,
                          [k \in {REPLACE_VARS_MERGE_ACTION} |-> <<>>]}

InitMerge ==
    /\ m_pc = "ready"
    /\ m_result = MainConfig
    /\ (InitMergePaths \/ InitMergeVaultIds \/ InitMergeScalars)
    /\ IdleCodec
    /\ IdleCfg
    /\ IdleMain
    /\ IdleTool

\* merged_config_model.merge(config_model, AttrMerger(merge_options=merge_options))
Merge ==
    /\ m_pc = "ready"
    /\ m_result' = MainConfig_merge(m_base, m_overlay, AttrMerger(m_options))
    /\ m_pc' = "done"
    /\ UNCHANGED <<m_base, m_overlay, m_options, codecVars, cfgVars, mainVars, toolVars>>

NextMerge == Merge

SpecMerge == InitMerge /\ [][NextMerge]_vars

\* the $replace_vars set of the overlay's merge options
PolicySet ==
    IF REPLACE_VARS_MERGE_ACTION \in DOMAIN m_options
    THEN Range(m_options[REPLACE_VARS_MERGE_ACTION])
    ELSE {}

Dotted(attr) == <<"ansible", attr>>

\* C1: for every list field L whose dotted path ansible.L is not in the
\* overlay's $replace_vars, merge(base, overlay).L starts with the old base.L in
\* its order, and the tail is exactly the overlay elements that equal no element
\* of the old base.L, in overlay order.
C1_AppendUnique ==
    m_pc = "done" =>
        \A L \in ListAttrs :
            Dotted(L) \notin PolicySet =>
                LET b == m_base.ansible[L]
                    o == m_overlay.ansible[L]
                    r == m_result.ansible[L]
                    New(x) == \A i \in 1..Len(b) : b[i] # x
                IN /\ IsPrefix(b, r)
                   /\ SubSeq(r, Len(b) + 1, Len(r)) = SelectSeq(o, New)

\* f1 with inventories [a], f2 with inventories [b] and an empty $replace_vars
C1_Witness ==
    /\ m_pc = "done"
    /\ REPLACE_VARS_MERGE_ACTION \in DOMAIN m_options
    /\ PolicySet = {}
    /\ m_base.ansible.inventories = <<PA>>
    /\ m_overlay.ansible.inventories = <<PB>>
    /\ m_result.ansible.inventories = <<PA, PB>>

\* C2: after a merge under append-unique semantics no list field of the result
\* holds two equal elements, whatever the base and overlay lists were.
C2_NoDuplicates ==
    m_pc = "done" =>
        \A L \in ListAttrs :
            Dotted(L) \notin PolicySet => ~HasDuplicates(m_result.ansible[L])

\* C3: a list field whose dotted path is in the overlay's $replace_vars equals
\* the overlay's list after the merge, whatever the base held; a field whose
\* path is not in the set is merged as it is under the empty policy.
C3_Replace ==
    m_pc = "done" =>
        \A F \in ListAttrs :
            IF Dotted(F) \in PolicySet
            THEN m_result.ansible[F] = m_overlay.ansible[F]
            ELSE m_result.ansible[F] =
                     MainConfig_merge(m_base, m_overlay,
                                      AttrMerger(EmptyDict)).ansible[F]

\* f2 names ansible.inventories in $replace_vars: inventories == [b], while
\* vars_files, not named, is still appended
C3_Witness ==
    /\ m_pc = "done"
    /\ PolicySet = {Dotted("inventories")}
    /\ m_base.ansible.inventories = <<PA>>
    /\ m_overlay.ansible.inventories = <<PB>>
    /\ m_result.ansible.inventories = <<PB>>
    /\ m_result.ansible.vars_files = <<PA, PB>>

\* the overlay is emptySettings: no scalar, no list element
IsNoOpOverlay(cfg) ==
    /\ \A a \in ScalarAttrs : IsNone(cfg[a])
    /\ \A L \in ListAttrs : cfg[L] = <<>>

\* C4: merging an overlay with all scalars absent and all lists empty under an
\* empty policy leaves every scalar and every list field of the base unchanged.
C4_NoOpOverlay ==
    (m_pc = "done" /\ IsNoOpOverlay(m_overlay.ansible) /\ PolicySet = {}) =>
        \A a \in ScalarAttrs \cup ListAttrs :
            m_result.ansible[a] = m_base.ansible[a]

\* ------------------------------------------------- codec harness (SpecCodec)
CodecContext(relative) ==
    ConfigContext(PurePath(<<"/", "etc", "/", "config.yml">>), relative)

PTilde == PurePath(<<"/", "etc", "/", "~">>)
POut == PurePath(<<"/", "srv", "/", "x">>)
V3 == VaultIdOf(<<"dev">>, <<>>)
V4 == VaultIdOf(<<"out">>, <<"/", "srv", "/", "pw">>)
\* what set_ansible_vault_ids stores for "dev@pw" when no file pw exists in the
\* working directory: auto_realpath leaves the relative source as it is
V5 == VaultId({}, <<"dev", "@", "pw">>)

CodecPathPool == {PA, EtcDir, PTilde, POut}
CodecVaultPool == {V1, V2, V3, V4, V5}

\* files that may exist: one in the working directory, one beside the config
CodecFiles == {<<"/", "work", "/", "pw">>, <<"/", "etc", "/", "pw">>}

WithPathScalars(cfg, set, path) ==
    [a \in DOMAIN cfg |->
        IF a \in set
        THEN (IF a \in PathScalarAttrs THEN Some(path) ELSE Some(<<"x">>))
        ELSE cfg[a]]

InitCodecPaths ==
    \E pl \in SeqsUpTo(CodecPathPool, MaxLen), set \in ScalarPatterns,
       sc \in CodecPathPool :
        /\ c_cfg = [ansible |->
                       WithPathScalars(WithLists(AnsibleConfig, pl, <<V1>>), set, sc),
                    config_context |-> Some(CodecContext(TRUE))]
        /\ c_fs = {}

InitCodecVaultIds ==
    \E vl \in SeqsUpTo(CodecVaultPool, MaxLen), env \in EnvPool :
        /\ c_cfg = [ansible |->
                       [WithLists(AnsibleConfig, <<PA>>, vl) EXCEPT !.env_vars = env],
                    config_context |-> Some(CodecContext(TRUE))]
        /\ c_fs \in SUBSET CodecFiles

InitCodec ==
    /\ c_pc = "start"
    /\ \E relative \in BOOLEAN : c_ctx = CodecContext(relative)
    /\ c_dict = EmptyDict
    /\ c_out = [ok |-> FALSE, config |-> MainConfig]
    /\ (InitCodecPaths \/ InitCodecVaultIds)
    /\ IdleMerge
    /\ IdleCfg
    /\ IdleMain
    /\ IdleTool

\* schema.dump(config) under c_ctx
Encode ==
    /\ c_pc = "start"
    /\ c_dict' = MainConfigSchema_dump(c_cfg, c_ctx)
    /\ c_pc' = "encoded"
    /\ UNCHANGED <<c_cfg, c_ctx, c_out, c_fs, mergeVars, cfgVars, mainVars, toolVars>>

\* schema.load(config_dict) with the context of the same config file
Decode ==
    /\ c_pc = "encoded"
    /\ c_out' = IF SchemaViolation(c_dict)
                THEN [ok |-> FALSE, config |-> MainConfig]
                ELSE [ok |-> TRUE,
                      config |-> MainConfigSchema_load(
                                     c_fs, c_dict,
                                     ConfigContext(c_ctx.config_file, TRUE))]
    /\ c_pc' = "decoded"
    /\ UNCHANGED <<c_cfg, c_ctx, c_dict, c_fs, mergeVars, cfgVars, mainVars, toolVars>>

NextCodec == Encode \/ Decode

SpecCodec == InitCodec /\ [][NextCodec]_vars

\* every path field and every vault-identity source path lies under dir
AllUnder(cfg, dir) ==
    /\ \A a \in PathScalarAttrs :
           ~IsNone(cfg[a]) => IsRelativeTo(cfg[a][1], dir)
    /\ \A L \in PathListAttrs :
           \A i \in 1..Len(cfg[L]) : IsRelativeTo(cfg[L][i], dir)
    /\ \A i \in 1..Len(cfg.vault_ids) :
           source_is_path(cfg.vault_ids[i]) =>
               IsRelativeTo(PurePath(cfg.vault_ids[i].source), dir)

\* C5: for settings whose paths all lie under ctx.config_dir, decoding with ctx
\* the mapping produced by encoding them with ctx in relative-path mode gives
\* back the same settings, field by field.
C5_RoundTrip ==
    (/\ c_pc = "decoded"
     /\ c_ctx.serialize_relative_paths
     /\ AllUnder(c_cfg.ansible, config_dir(c_ctx)))
    => /\ c_out.ok
       /\ \A a \in AllAttrs : c_out.config.ansible[a] = c_cfg.ansible[a]

\* ------------------------------------------- Configurator harness (SpecCfg)
ConfigFile1 == <<"/", "etc", "/", "config.yml">>
ConfigFile1ViaLink == <<"/", "lnk", "/", "config.yml">>
ConfigFile2 == <<"/", "srv", "/", "config.yml">>
SaveTarget == <<"/", "srv", "/", "out.yml">>

RawConfig1 ==
    [k \in {"ansible"} |->
        [user |-> Some(<<"x">>),
         inventories |-> << <<"a">> >>,
         vault_ids |-> << <<"prod", "@", "pw">> >>]]

RawConfig2 ==
    [k \in {"ansible", REPLACE_VARS_MERGE_ACTION} |->
        IF k = "ansible"
        THEN [inventories |-> << <<"b">> >>, log_path |-> Some(<<"log">>)]
        ELSE << <<"ansible", "inventories">> >>]

\* a file system with ConfigFile1 as given, ConfigFile2 and the save target
CfgDisk(file1) ==
    LET base == IF IsNone(file1) THEN EmptyDict
                ELSE [p \in {ConfigFile1} |-> file1[1]]
    IN Put(Put(base, ConfigFile2, File("yaml", RawConfig2)),
           SaveTarget, File("data", EmptyDict))

\* the constructor calls: the config_files argument and the file system
CfgLoads ==
    {<< <<>>, CfgDisk(Some(File("yaml", RawConfig1))) >>,
     << <<ConfigFile1>>, CfgDisk(None) >>,
     << <<ConfigFile1>>, CfgDisk(Some(File("yaml", RawConfig1))) >>,
     << <<ConfigFile1>>, CfgDisk(Some(File("malformed", EmptyDict))) >>,
     << <<ConfigFile1ViaLink>>, CfgDisk(Some(File("yaml", RawConfig1))) >>,
     << <<ConfigFile1, ConfigFile2>>, CfgDisk(Some(File("yaml", RawConfig1))) >>,
     << <<ConfigFile1, ConfigFile2>>, CfgDisk(Some(File("yaml", EmptyDict))) >>}

InitCfg ==
    /\ k_pc = "new"
    /\ \E load \in CfgLoads :
          /\ k_config_files = load[1]
          /\ disk = load[2]
    /\ k_config = MainConfig
    /\ k_initial = EmptyDict
    /\ k_logged = FALSE
    /\ k_calls = 0
    /\ k_save = NoSave
    /\ IdleMerge
    /\ IdleCodec
    /\ IdleMain
    /\ IdleTool

\* config = Configurator(config_files=config_files)
Load ==
    /\ k_pc = "new"
    /\ \E r \in {Configurator_init(disk, k_config_files)} :
          /\ k_pc' = IF r.raised THEN "failed" ELSE "loaded"
          /\ k_config' = r.config
          /\ k_initial' = r.initial
          /\ k_logged' = r.logged
    /\ UNCHANGED <<k_config_files, disk, k_calls, k_save, mergeVars, codecVars, mainVars, toolVars>>

\* a call of the setter of attr on the loaded Configurator
CallSetter(attr, value) ==
    /\ k_pc = "loaded"
    /\ k_calls < MaxSetterCalls
    /\ k_config' = set_ansible(k_config, disk, attr, value)
    /\ k_calls' = k_calls + 1
    /\ UNCHANGED <<k_pc, k_config_files, disk, k_initial, k_logged, k_save,
                   mergeVars, codecVars, mainVars, toolVars>>

set_ansible_user == \E v \in {None, Some(<<"x">>), Some(<<"z">>)} : CallSetter("user", v)

set_ansible_private_key_file ==
    \E v \in {<<"key">>, <<"/", "lnk", "/", "key">>} :
        CallSetter("private_key_file", v)

set_ansible_config_file ==
    CallSetter("config_file", <<"/", "etc", "/", "ansible.cfg">>)

set_ansible_inventories ==
    \E v \in {<<>>, << <<"inv">> >>} : CallSetter("inventories", v)

set_ansible_vault_password_files ==
    CallSetter("vault_password_files", << <<"/", "etc", "/", "pw">> >>)

set_ansible_vault_ids == CallSetter("vault_ids", << <<"dev", "@", "prompt">> >>)

set_ansible_vault_encrypt_identity ==
    CallSetter("vault_encrypt_identity", Some(<<"dev">>))

set_ansible_log_path ==
    CallSetter("log_path", <<"/", "etc", "/", "..", "/", "log">>)

set_ansible_vault_files == CallSetter("vault_files", << <<"/", "etc", "/", "a">> >>)

set_ansible_vars_files == CallSetter("vars_files", << <<"b">>, <<>> >>)

set_ansible_user_scripts == CallSetter("user_scripts", << <<"/", "etc", "/", "a">> >>)

set_ansible_env_vars == CallSetter("env_vars", [k \in {"E"} |-> <<"1">>])

\* what the operating system does to the rename and the write of a save
IOOutcomes == {"ok", "rename_fails", "open_fails", "write_fails"}

\* the record of a call of save: its arguments, what the operating system
\* refused and the outcome r
SaveRecord(filename, force, do_backup, io, r) ==
    [filename |-> filename, force |-> force, do_backup |-> do_backup, io |-> io,
     called |-> r.called, target |-> r.target, dict |-> r.dict,
     result |-> r.result, raised |-> r.raised,
     backup_failed |-> r.backup_failed,
     write_attempted |-> r.write_attempted,
     write_failed |-> r.write_failed]

\* mutant: a save that returned True takes a new snapshot of the settings
SaveRefreshesSnapshot ==
    /\ k_pc = "loaded"
    /\ \E filename \in {None, Some(<<>>), Some(SaveTarget)}, force \in BOOLEAN,
          do_backup \in BOOLEAN, io \in IOOutcomes :
          \E r \in {Configurator_save(k_config, k_initial, disk, filename, force,
                                      do_backup, io)} :
             /\ k_save' = SaveRecord(filename, force, do_backup, io, r)
             /\ disk' = r.fs
             /\ k_initial' = IF r.result THEN config_to_dict(k_config)
                              ELSE k_initial
    /\ k_pc' = "saved"
    /\ UNCHANGED <<k_config_files, k_config, k_logged, k_calls,
                   mergeVars, codecVars, mainVars, toolVars>>

\* config.save(filename, force, do_backup)
Save ==
    /\ k_pc = "loaded"
    /\ \E filename \in {None, Some(<<>>), Some(SaveTarget)}, force \in BOOLEAN,
          do_backup \in BOOLEAN, io \in IOOutcomes :
          \E r \in {Configurator_save(k_config, k_initial, disk, filename, force,
                                      do_backup, io)} :
             /\ k_save' = SaveRecord(filename, force, do_backup, io, r)
             /\ disk' = r.fs
    /\ k_pc' = "saved"
    /\ UNCHANGED <<k_config_files, k_config, k_initial, k_logged, k_calls,
                   mergeVars, codecVars, mainVars, toolVars>>

\* config.save(do_backup) called once more after a save that returned True
SaveAgain ==
    /\ k_pc = "saved"
    /\ k_save.result
    /\ \E do_backup \in BOOLEAN, io \in IOOutcomes :
          \E r \in {Configurator_save(k_config, k_initial, disk, None, FALSE,
                                      do_backup, io)} :
             /\ k_save' = SaveRecord(None, FALSE, do_backup, io, r)
             /\ disk' = r.fs
    /\ k_pc' = "saved_again"
    /\ UNCHANGED <<k_config_files, k_config, k_initial, k_logged, k_calls,
                   mergeVars, codecVars, mainVars, toolVars>>

NextCfg ==
    \/ Load
    \/ SaveAgain
    \/ set_ansible_user
    \/ set_ansible_private_key_file
    \/ set_ansible_config_file
    \/ set_ansible_inventories
    \/ set_ansible_vault_password_files
    \/ set_ansible_vault_ids
    \/ set_ansible_vault_encrypt_identity
    \/ set_ansible_log_path
    \/ set_ansible_vault_files
    \/ set_ansible_vars_files
    \/ set_ansible_user_scripts
    \/ set_ansible_env_vars
    \/ Save

SpecCfg == InitCfg /\ [][NextCfg]_vars

\* the step is the constructor call that returned a Configurator
IsLoadStep == k_pc = "new" /\ k_pc' = "loaded"

\* the step is a setter call on the loaded Configurator
IsSetterStep == k_pc = "loaded" /\ k_pc' = "loaded" /\ k_calls' = k_calls + 1

\* the step is a call of save on the loaded Configurator
IsSaveStep == k_pc = "loaded" /\ k_pc' = "saved"

\* C6: config_changed is False right after loading and as long as no setter
\* was called; the snapshot it compares with is the absolute-path dump taken at
\* load, which no setter touches; a setter call that leaves the absolute-path
\* dump as it was leaves config_changed as it was; and the first setter call
\* that changes the value of a field makes config_changed True.
C6_ConfigChanged ==
    [][/\ IsLoadStep =>
              /\ k_initial' = config_to_dict(k_config')
              /\ ~config_changed(k_config', k_initial')
       /\ (k_pc = "loaded" /\ k_calls = 0) => ~config_changed(k_config, k_initial)
       /\ IsSetterStep =>
              /\ k_initial' = k_initial
              /\ config_to_dict(k_config') = config_to_dict(k_config)
                    => (config_changed(k_config', k_initial')
                           <=> config_changed(k_config, k_initial))
              /\ (k_calls = 0 /\ k_config' # k_config)
                    => config_changed(k_config', k_initial')]_vars

\* one setter call changed a field and config_changed is True
C6_Witness ==
    /\ k_pc = "loaded"
    /\ k_calls = 1
    /\ config_changed(k_config, k_initial)

\* the destination of a save: the real path of the filename given, or the
\* config file the settings were loaded from
SaveDestination(config, filename) ==
    IF NoFilename(filename) THEN PathStr(config.config_context[1].config_file)
    ELSE realpath(filename[1])

\* C7: save with no filename, force false and config_changed False returns
\* False, calls neither the backup nor the write and leaves the file system as
\* it is; in every other case it hands the relative-path dump of the settings,
\* relative to the directory of the destination, to save_config_dict for the
\* destination (the file named, or the original config file), which opens the
\* destination for writing unless the backup before it failed, and the
\* destination holds that dump when the operating system refuses nothing.
C7_SaveGuard ==
    [][IsSaveStep =>
          IF /\ NoFilename(k_save'.filename)
             /\ ~k_save'.force
             /\ ~config_changed(k_config, k_initial)
          THEN /\ ~k_save'.result
               /\ ~k_save'.called
               /\ ~k_save'.write_attempted
               /\ ~k_save'.backup_failed
               /\ disk' = disk
          ELSE /\ k_save'.called
               /\ k_save'.target = SaveDestination(k_config, k_save'.filename)
               /\ k_save'.dict =
                     MainConfigSchema_dump(
                         k_config,
                         ConfigContext(PurePath(k_save'.target), TRUE))
               /\ k_save'.write_attempted \/ k_save'.backup_failed
               /\ k_save'.io = "ok" =>
                     /\ k_save'.result
                     /\ k_save'.target \in DOMAIN disk'
                     /\ disk'[k_save'.target] = File("yaml", k_save'.dict)]_vars

\* save was called on unchanged settings with no filename and no force, and
\* returned False without calling save_config_dict
C7_Witness ==
    /\ k_pc = "saved"
    /\ IsNone(k_save.filename)
    /\ ~k_save.force
    /\ ~k_save.called
    /\ ~k_save.result

\* C8: when the backup or the write of a save fails, save returns False and
\* raises nothing; when the backup fails the destination is not opened for
\* writing and the file system, the destination's content included, is as it
\* was before the call.
C8_SaveFailure ==
    [][IsSaveStep =>
          /\ (k_save'.backup_failed \/ k_save'.write_failed) =>
                 /\ ~k_save'.result
                 /\ ~k_save'.raised
          /\ (/\ k_save'.called
              /\ k_save'.do_backup
              /\ k_save'.io = "rename_fails"
              /\ k_save'.target \in DOMAIN disk) =>
                 /\ k_save'.backup_failed
                 /\ ~k_save'.write_attempted
                 /\ disk' = disk
          /\ (/\ k_save'.called
              /\ k_save'.io \in {"open_fails", "write_fails"}) =>
                 /\ k_save'.write_failed
                 /\ ~k_save'.result
                 /\ ~k_save'.raised]_vars

\* a save whose backup failed: it returned False, the destination is there
\* with the content it had
C8_Witness ==
    /\ k_pc = "saved"
    /\ k_save.called
    /\ k_save.backup_failed
    /\ ~k_save.result
    /\ k_save.target \in DOMAIN disk

\* ---------------------------------------------------- main() (SpecMain)
\* DEFAULT_CONFIG_FILE: config.yml of the project directory
DEFAULT_CONFIG_FILE == ConfigFile1

\* a mapping with a key no field of AnsibleConfigSchema declares
RawConfigBogus ==
    [k \in {"ansible"} |->
        [user |-> Some(<<"x">>), bogus |-> Some(<<"1">>)]]

\* a mapping that names a vault password file and a log path
RawConfigPw ==
    [k \in {"ansible"} |->
        [vault_password_files |-> << <<"pw">> >>,
         log_path |-> Some(<<"..", "/", "log">>)]]

\* what the default config file holds when main starts
MainFiles == {"absent", "yaml", "malformed", "bogus", "pw"}

MainDisk(file) ==
    CfgDisk(IF file = "absent" THEN None
            ELSE IF file = "yaml" THEN Some(File("yaml", RawConfig1))
            ELSE IF file = "malformed" THEN Some(File("malformed", EmptyDict))
            ELSE IF file = "bogus" THEN Some(File("yaml", RawConfigBogus))
            ELSE Some(File("yaml", RawConfigPw)))

\* the command lines drawn: no subcommand, no vault option, no list option,
\* no --reconfigure
MainArgs ==
    [tools : BOOLEAN,
     config_files : {<<>>, <<ConfigFile1, ConfigFile2>>},
     user : {None, Some(<<"x">>), Some(<<"z">>)},
     inventory : {<<>>, << <<"inv">> >>},
     read_only : BOOLEAN, no_backup : BOOLEAN, show : BOOLEAN]

InitMain ==
    /\ a_pc = "start"
    /\ a_args \in MainArgs
    /\ a_file \in MainFiles
    /\ a_log = FALSE
    /\ a_printed = FALSE
    /\ a_rc = None
    /\ k_pc = "new"
    /\ k_config_files = <<>>
    /\ disk = MainDisk(a_file)
    /\ k_config = MainConfig
    /\ k_initial = EmptyDict
    /\ k_logged = FALSE
    /\ k_calls = 0
    /\ k_save = NoSave
    /\ IdleMerge
    /\ IdleCodec
    /\ IdleTool

\* main: the check for the ansible tools with which(); a missing tool is
\* logged and main returns 1
MainTools ==
    /\ a_pc = "start"
    /\ a_pc' = IF a_args.tools THEN "tools_ok" ELSE "done"
    /\ a_rc' = IF a_args.tools THEN None ELSE Some(1)
    /\ UNCHANGED <<a_args, a_file, a_log, a_printed, cfgVars, mergeVars,
                   codecVars, toolVars>>

\* config_files = args.config_files or [DEFAULT_CONFIG_FILE]
MainConfigFiles(args) ==
    IF args.config_files = <<>> THEN <<DEFAULT_CONFIG_FILE>>
    ELSE args.config_files

\* main: config = Configurator(config_files=config_files) in try/except; the
\* exception is logged and main returns 1
MainLoad ==
    /\ a_pc = "tools_ok"
    /\ k_config_files' = MainConfigFiles(a_args)
    /\ \E r \in {Configurator_init(disk, MainConfigFiles(a_args))} :
          /\ k_pc' = IF r.raised THEN "failed" ELSE "loaded"
          /\ k_config' = r.config
          /\ k_initial' = r.initial
          /\ k_logged' = r.logged
          /\ a_log' = (r.logged \/ r.raised)
          /\ a_pc' = IF r.raised THEN "done" ELSE "loaded"
          /\ a_rc' = IF r.raised THEN Some(1) ELSE None
    /\ UNCHANGED <<a_args, a_file, a_printed, disk, k_calls, k_save, mergeVars,
                   codecVars, toolVars>>

\* main: --show prints the configuration and returns 0
MainShow ==
    /\ a_pc = "loaded"
    /\ a_args.show
    /\ a_printed' = TRUE
    /\ a_pc' = "done"
    /\ a_rc' = Some(0)
    /\ UNCHANGED <<a_args, a_file, a_log, cfgVars, mergeVars, codecVars, toolVars>>

\* [str_or_none(i) for i in paths]
StrList(paths) == [i \in 1..Len(paths) |-> PathStr(paths[i])]

\* array_realpath_if(paths): realpath_if of each element
array_realpath_if(paths) ==
    [i \in 1..Len(paths) |->
        IF paths[i] = <<>> THEN paths[i] ELSE realpath(paths[i])]

\* mutant: the generated password goes into the config file
GeneratePasswordOverConfigFile(config, fs, args) ==
    IF ~args.read_only
    THEN Put(fs, realpath(DEFAULT_CONFIG_FILE), File("data", EmptyDict))
    ELSE fs

\* main: no configured vault password file exists and the run is not
\* read-only: the first configured one is written with a random password
generate_vault_password(config, fs, args) ==
    LET files == config.ansible.vault_password_files
    IN IF /\ ~args.read_only
          /\ files # <<>>
          /\ \A i \in 1..Len(files) : ~exists(DOMAIN fs, PathStr(files[i]))
       THEN Put(fs, realpath(PathStr(files[1])), File("data", EmptyDict))
       ELSE fs

\* args.user after "if args.user is None: args.user = config user"
ArgsUser(config, args) ==
    IF IsNone(args.user) THEN config.ansible.user ELSE args.user

\* args.inventory after "if not args.inventory: args.inventory = [str(i) ...]"
ArgsInventory(config, args) ==
    IF args.inventory = <<>> THEN StrList(config.ansible.inventories)
    ELSE args.inventory

\* args.user != str_or_none(config.get_ansible_user())
UserDiffers(config, args) == ArgsUser(config, args) # config.ansible.user

\* array_realpath_if(args.inventory) != [str_or_none(i) for i in inventories]
InventoryDiffers(config, args) ==
    array_realpath_if(ArgsInventory(config, args))
        # StrList(config.ansible.inventories)

\* args.default_log_path != str_or_none(config.get_ansible_log_path()) with
\* args.default_log_path the Path main took from the configuration: a Path
\* never equals a str, so the two differ whenever a log path is configured
LogPathDiffers(config) == ~IsNone(config.ansible.log_path)

\* main: config.set_ansible_user(args.user) where the two differ
apply_user(config, fs, args) ==
    IF UserDiffers(config, args)
    THEN set_ansible(config, fs, "user", ArgsUser(config, args))
    ELSE config

\* main: config.set_ansible_inventories(args.inventory) where the two differ
apply_inventory(config, fs, args) ==
    IF InventoryDiffers(config, args)
    THEN set_ansible(config, fs, "inventories", ArgsInventory(config, args))
    ELSE config

\* main: config.set_ansible_log_path(args.default_log_path) where the two
\* differ
apply_log_path(config, fs) ==
    IF LogPathDiffers(config)
    THEN set_ansible(config, fs, "log_path", PathStr(config.ansible.log_path[1]))
    ELSE config

\* the setters main calls, in its order, for a command line of MainArgs
main_configure(config, fs, args) ==
    apply_log_path(apply_inventory(apply_user(config, fs, args), fs, args), fs)

\* the number of setters main_configure calls
MainSetterCalls(config, args) ==
    (IF UserDiffers(config, args) THEN 1 ELSE 0)
    + (IF InventoryDiffers(config, args) THEN 1 ELSE 0)
    + (IF LogPathDiffers(config) THEN 1 ELSE 0)

\* main between the show options and the save: the vault password file is
\* generated and the settings of the command line are applied
MainConfigure ==
    /\ a_pc = "loaded"
    /\ ~a_args.show
    /\ disk' = generate_vault_password(k_config, disk, a_args)
    /\ k_config' = main_configure(k_config, disk, a_args)
    /\ k_calls' = MainSetterCalls(k_config, a_args)
    /\ a_pc' = "configured"
    /\ UNCHANGED <<a_args, a_file, a_log, a_printed, a_rc, k_pc, k_config_files,
                   k_initial, k_logged, k_save, mergeVars, codecVars, toolVars>>

\* main: "if not args.read_only: config.save(do_backup=not args.no_backup)";
\* what save returns is not looked at
MainSave ==
    /\ a_pc = "configured"
    /\ IF a_args.read_only
       THEN UNCHANGED <<k_pc, k_save, disk>>
       ELSE /\ k_pc' = "saved"
            /\ \E io \in IOOutcomes :
                  \E r \in {Configurator_save(k_config, k_initial, disk, None,
                                              FALSE, ~a_args.no_backup, io)} :
                     /\ k_save' = SaveRecord(None, FALSE, ~a_args.no_backup, io, r)
                     /\ disk' = r.fs
    /\ a_pc' = "saved"
    /\ UNCHANGED <<a_args, a_file, a_log, a_printed, a_rc, k_config_files,
                   k_config, k_initial, k_logged, k_calls, mergeVars, codecVars, toolVars>>

\* main: config.print_info() and return 0
MainPrintInfo ==
    /\ a_pc = "saved"
    /\ a_printed' = TRUE
    /\ a_rc' = Some(0)
    /\ a_pc' = "done"
    /\ UNCHANGED <<a_args, a_file, a_log, cfgVars, mergeVars, codecVars, toolVars>>

NextMain ==
    \/ MainTools
    \/ MainLoad
    \/ MainShow
    \/ MainConfigure
    \/ MainSave
    \/ MainPrintInfo

SpecMain == InitMain /\ [][NextMain]_vars

\* C9: in the default run of main that is not read-only, when the settings
\* changed and the save or its backup failed, main prints the summary and
\* returns 1; it returns 0 only when the save succeeded or none was needed.
C9_SaveFailureExitCode ==
    (a_pc = "done" /\ ~a_args.read_only /\ ~a_args.show) =>
        /\ (k_save.called /\ ~k_save.result) => (a_printed /\ a_rc = Some(1))
        /\ a_rc = Some(0) => (~k_save.called \/ k_save.result)

\* C10: when the config file exists and holds malformed YAML or a mapping the
\* schema rejects, the run never has a Configurator (it reaches neither the
\* setters nor the save), and it ends with the failure logged and the return
\* code 1.
C10_BadConfigAborts ==
    (a_file \in {"malformed", "bogus"} /\ a_args.tools) =>
        /\ a_pc \notin {"loaded", "configured", "saved"}
        /\ k_pc \notin {"loaded", "saved"}
        /\ a_pc = "done" => (a_log /\ a_rc = Some(1))

\* ------------------------------------------ vault commands (SpecVault)
MaxVaultFiles == 2   \* configured vault files
MaxVaultIds == 2     \* configured vault ids

\* the exit statuses of the ansible-vault child: 0, two failures, and the
\* negative number subprocess reports for a child a signal ended
ExitStatuses == {0, 1, 2, -15}

\* is_vault(filename): the file exists and starts with ANSIBLE_VAULT_MAGIC
is_vault(f) == f.kind = "vault"

\* os.path.exists(filename)
VaultFileExists(f) == f.kind # "missing"

\* an element of found_files: a configured vault file is a pathlib.Path, a
\* file met by os.walk is the str os.path.join gives, and a Path and a str
\* of the same text are not equal
AsPath(f) == <<"Path", f.name>>
AsStr(f) == <<"str", f.name>>

RECURSIVE WalkInventories(_, _, _)
\* the second loop of find_all_vaults over the files os.walk meets: a file is
\* yielded when its str is not in found_files and it is encrypted
WalkInventories(files, found_files, yielded) ==
    IF files = <<>> THEN yielded
    ELSE IF AsStr(Head(files)) \notin found_files /\ is_vault(Head(files))
    THEN WalkInventories(Tail(files), found_files \cup {AsStr(Head(files))},
                         Append(yielded, Head(files)))
    ELSE WalkInventories(Tail(files), found_files, yielded)

\* find_all_vaults(config): every configured vault file that is encrypted is
\* added to found_files and yielded, then the files below the inventory
\* directories
find_all_vaults(vault_files, inventory_vaults) ==
    WalkInventories(inventory_vaults,
                    {AsPath(vault_files[i]) :
                        i \in {j \in 1..Len(vault_files) : is_vault(vault_files[j])}},
                    SelectSeq(vault_files, is_vault))

\* select_item(prompt, items): the only item without a question, else what
\* the user picks; choice 0 is "Cancel"
select_item(items, choice) ==
    IF Len(items) = 1 THEN Some(items[1])
    ELSE IF choice \in 1..Len(items) THEN Some(items[choice])
    ELSE None

\* Configurator.run_ansible_vault(command, vault_file, check_call): with
\* check_call the child runs under subprocess.check_call, which raises
\* CalledProcessError on a non-zero status; else subprocess.call returns it
run_ansible_vault(check_call, status) ==
    [raised |-> check_call /\ status # 0, result |-> status]

\* a command function returns n without running the child
VaultReturn(n) == [rc |-> Some(n), raised |-> FALSE, calls |-> <<>>]

\* "return config.run_ansible_vault(..., check_call=True)": the command
\* returns what the call returns, or the exception of the call leaves it
VaultReturnRun(status) ==
    IF run_ansible_vault(TRUE, status).raised
    THEN [rc |-> None, raised |-> TRUE, calls |-> <<status>>]
    ELSE [rc |-> Some(run_ansible_vault(TRUE, status).result), raised |-> FALSE,
          calls |-> <<status>>]

RECURSIVE VaultRunAll(_, _, _)
\* the loop "for filename in find_all_vaults(config): config.run_ansible_vault(
\* ..., check_call=True)" followed by "return 0"; statuses[i] is the exit
\* status of the child of the i-th file
VaultRunAll(n, statuses, calls) ==
    IF Len(calls) = n THEN [rc |-> Some(0), raised |-> FALSE, calls |-> calls]
    ELSE IF run_ansible_vault(TRUE, statuses[Len(calls) + 1]).raised
    THEN [rc |-> None, raised |-> TRUE,
          calls |-> Append(calls, statuses[Len(calls) + 1])]
    ELSE VaultRunAll(n, statuses, Append(calls, statuses[Len(calls) + 1]))

\* view_vault_command, decrypt_vault_command: the file is selected among the
\* encrypted files found
select_vault_command(vault_files, inventory_vaults, choice, status) ==
    IF find_all_vaults(vault_files, inventory_vaults) = <<>> THEN VaultReturn(1)
    ELSE IF IsNone(select_item(find_all_vaults(vault_files, inventory_vaults),
                               choice))
    THEN VaultReturn(1)
    ELSE VaultReturnRun(status)

\* view_vault_command(config, args)
view_vault_command(vault_files, inventory_vaults, choice, status) ==
    select_vault_command(vault_files, inventory_vaults, choice, status)

\* decrypt_vault_command(config, args)
decrypt_vault_command(vault_files, inventory_vaults, choice, status) ==
    select_vault_command(vault_files, inventory_vaults, choice, status)

\* the configured vault files that exist and are not encrypted
Unencrypted(f) == VaultFileExists(f) /\ ~is_vault(f)

\* encrypt_vault_command(config, args): encrypt_vault_id is the option of the
\* command line, None when it is not given; id_choice is the user's pick
\* among the vault ids
encrypt_vault_command(vault_files, vault_ids, encrypt_vault_id, choice, id_choice, status) ==
    IF SelectSeq(vault_files, Unencrypted) = <<>> THEN VaultReturn(1)
    ELSE IF IsNone(select_item(SelectSeq(vault_files, Unencrypted), choice))
    THEN VaultReturn(1)
    ELSE IF /\ IsNone(encrypt_vault_id)
            /\ Len(vault_ids) > 1
            /\ IsNone(select_item(vault_ids, id_choice))
    THEN VaultReturn(1)
    ELSE VaultReturnRun(status)

\* the configured vault files that do not exist
MissingVault(f) == ~VaultFileExists(f)

\* create_vault_command(config, args)
create_vault_command(vault_files, choice, status) ==
    IF SelectSeq(vault_files, MissingVault) = <<>> THEN VaultReturn(1)
    ELSE IF /\ Len(SelectSeq(vault_files, MissingVault)) > 1
            /\ choice \notin 1..Len(SelectSeq(vault_files, MissingVault))
    THEN VaultReturn(1)
    ELSE VaultReturnRun(status)

\* edit_vault_command(config, args)
edit_vault_command(vault_files, inventory_vaults, choice, status) ==
    IF find_all_vaults(vault_files, inventory_vaults) = <<>>
    THEN (IF Len(vault_files) > 0
          THEN create_vault_command(vault_files, choice, status)
          ELSE VaultReturn(1))
    ELSE IF IsNone(select_item(find_all_vaults(vault_files, inventory_vaults),
                               choice))
    THEN VaultReturn(1)
    ELSE VaultReturnRun(status)

\* decrypt_all_vaults_command(config, args)
decrypt_all_vaults_command(vault_files, inventory_vaults, statuses) ==
    VaultRunAll(Len(find_all_vaults(vault_files, inventory_vaults)), statuses,
                <<>>)

\* rekey_all_vaults_command(config, args)
rekey_all_vaults_command(vault_files, inventory_vaults, statuses) ==
    VaultRunAll(Len(find_all_vaults(vault_files, inventory_vaults)), statuses,
                <<>>)

VaultCommands ==
    {"view", "decrypt", "encrypt", "edit", "create", "rekey", "decrypt-all"}

VaultFileKinds == {"missing", "plain", "vault"}

\* the configured vault files v1, v2, ... of every kind
VaultFileLists ==
    UNION {[1..n -> VaultFileKinds] : n \in 0..MaxVaultFiles}

VaultFilesOf(kinds) ==
    [i \in 1..Len(kinds) |-> [name |-> <<"v", i>>, kind |-> kinds[i]]]

InventoryVaultPool == {<<>>, <<[name |-> <<"g", 1>>, kind |-> "vault"]>>}

VaultIdPool == {SubSeq(<<"prod", "dev", "test">>, 1, n) : n \in 0..MaxVaultIds}

\* the picks of the user at a selection: 0 is "Cancel"
Choices == 0..(MaxVaultFiles + 1)

\* the exit statuses of the children of a command that runs one per file
StatusLists == [1..(MaxVaultFiles + 1) -> ExitStatuses]

InitVault ==
    /\ v_pc = "start"
    /\ v_cmd \in VaultCommands
    /\ \E kinds \in VaultFileLists : v_vault_files = VaultFilesOf(kinds)
    /\ v_inventory_vaults \in InventoryVaultPool
    /\ v_vault_ids \in VaultIdPool
    /\ v_out = NoVaultOut
    /\ IdleMerge
    /\ IdleCodec
    /\ IdleCfg
    /\ IdleMain
    /\ IdleBackup
    /\ IdleShell
    /\ IdleRun
    /\ IdleMore

\* the command function returned or raised
VaultDone(out) ==
    /\ v_out' = out
    /\ v_pc' = "done"
    /\ UNCHANGED <<v_cmd, v_vault_files, v_inventory_vaults, v_vault_ids,
                   mergeVars, codecVars, cfgVars, mainVars, backupVars,
                   shellVars, runVars, moreVars>>

ViewVault ==
    /\ v_pc = "start" /\ v_cmd = "view"
    /\ \E choice \in Choices, status \in ExitStatuses :
          VaultDone(view_vault_command(v_vault_files, v_inventory_vaults,
                                       choice, status))

DecryptVault ==
    /\ v_pc = "start" /\ v_cmd = "decrypt"
    /\ \E choice \in Choices, status \in ExitStatuses :
          VaultDone(decrypt_vault_command(v_vault_files, v_inventory_vaults,
                                          choice, status))

EncryptVault ==
    /\ v_pc = "start" /\ v_cmd = "encrypt"
    /\ \E choice \in Choices, id_choice \in Choices, status \in ExitStatuses,
          encrypt_vault_id \in {None, Some("prod")} :
          VaultDone(encrypt_vault_command(v_vault_files, v_vault_ids,
                                          encrypt_vault_id, choice, id_choice,
                                          status))

EditVault ==
    /\ v_pc = "start" /\ v_cmd = "edit"
    /\ \E choice \in Choices, status \in ExitStatuses :
          VaultDone(edit_vault_command(v_vault_files, v_inventory_vaults,
                                       choice, status))

CreateVault ==
    /\ v_pc = "start" /\ v_cmd = "create"
    /\ \E choice \in Choices, status \in ExitStatuses :
          VaultDone(create_vault_command(v_vault_files, choice, status))

RekeyVaults ==
    /\ v_pc = "start" /\ v_cmd = "rekey"
    /\ \E statuses \in StatusLists :
          VaultDone(rekey_all_vaults_command(v_vault_files, v_inventory_vaults,
                                             statuses))

DecryptAllVaults ==
    /\ v_pc = "start" /\ v_cmd = "decrypt-all"
    /\ \E statuses \in StatusLists :
          VaultDone(decrypt_all_vaults_command(v_vault_files,
                                               v_inventory_vaults, statuses))

NextVault ==
    \/ ViewVault
    \/ DecryptVault
    \/ EncryptVault
    \/ EditVault
    \/ CreateVault
    \/ RekeyVaults
    \/ DecryptAllVaults

SpecVault == InitVault /\ [][NextVault]_vars

\* C11: for every vault command, no exception leaves the command; when a
\* child ansible-vault ended with a non-zero status n the command returns n,
\* and when every child ended with 0 the command returns 0.
C11_VaultStatusPropagated ==
    v_pc = "done" =>
        /\ ~v_out.raised
        /\ \A i \in 1..Len(v_out.calls) :
              v_out.calls[i] # 0 => v_out.rc = Some(v_out.calls[i])
        /\ (/\ v_out.calls # <<>>
            /\ \A i \in 1..Len(v_out.calls) : v_out.calls[i] = 0)
              => v_out.rc = Some(0)

\* ------------------------------------------- further claims on SpecCodec
\* C12: the encoded mapping has no key whose value is absent or empty: no
\* None scalar, no empty list and no empty env_vars mapping is written.
C12_SparseOutput ==
    c_pc \in {"encoded", "decoded"} =>
        \A a \in DOMAIN c_dict["ansible"] :
            /\ a \in ScalarAttrs => ~IsNone(c_dict["ansible"][a])
            /\ a \in ListAttrs => c_dict["ansible"][a] # <<>>
            /\ a = "env_vars" => c_dict["ansible"][a] # EmptyDict

\* the text the claim gives for a path: relative to the directory of the
\* config file when relative mode is on and the path lies under it, the
\* path's own text otherwise
WrittenPath(p, ctx) ==
    IF ctx.serialize_relative_paths /\ IsRelativeTo(p, config_dir(ctx))
    THEN PathStr(RelativeTo(p, config_dir(ctx)))
    ELSE PathStr(p)

\* the path was relativized, or its written text is an absolute path
RelativizedOrAbsolute(p, ctx) ==
    \/ ctx.serialize_relative_paths /\ IsRelativeTo(p, config_dir(ctx))
    \/ isabs(PathStr(p))

\* C15: in relative mode each path field and each path source of a vault
\* identity is written relative to config_dir when it lies under config_dir
\* and as the unchanged absolute path otherwise; in absolute mode nothing is
\* relativized and every path is written in its absolute form.
C15_EncodePaths ==
    c_pc \in {"encoded", "decoded"} =>
        /\ \A a \in PathScalarAttrs :
              ~IsNone(c_cfg.ansible[a]) =>
                  /\ c_dict["ansible"][a]
                        = Some(WrittenPath(c_cfg.ansible[a][1], c_ctx))
                  /\ RelativizedOrAbsolute(c_cfg.ansible[a][1], c_ctx)
        /\ \A L \in PathListAttrs :
              /\ Len(c_dict["ansible"][L]) = Len(c_cfg.ansible[L])
              /\ \A i \in 1..Len(c_cfg.ansible[L]) :
                    /\ c_dict["ansible"][L][i]
                          = WrittenPath(c_cfg.ansible[L][i], c_ctx)
                    /\ RelativizedOrAbsolute(c_cfg.ansible[L][i], c_ctx)
        /\ Len(c_dict["ansible"]["vault_ids"]) = Len(c_cfg.ansible.vault_ids)
        /\ \A i \in 1..Len(c_cfg.ansible.vault_ids) :
              LET v == c_cfg.ansible.vault_ids[i]
              IN IF source_is_path(v)
                 THEN /\ c_dict["ansible"]["vault_ids"][i]
                            = v.label \o <<"@">>
                                 \o WrittenPath(PurePath(v.source), c_ctx)
                      /\ RelativizedOrAbsolute(PurePath(v.source), c_ctx)
                 ELSE c_dict["ansible"]["vault_ids"][i]
                         = v.label \o <<"@">> \o v.source

\* ---------------------------------- decoding raw mappings (SpecDecode)
\* raw strings of path fields: empty, relative, home-relative, absolute,
\* with a parent step
RawPathPool ==
    {<<>>, <<"a">>, <<"~">>, <<"~", "/", "a">>, <<"/", "srv", "/", "x">>,
     <<"..", "/", "a">>}

\* raw vault-identity strings
RawVaultIdPool ==
    {<<"prod">>, <<"prod", "@">>, <<"prod", "@", "prompt">>,
     <<"prod", "@", "pw">>, <<"prod", "@", "/", "etc", "/", "pw">>,
     <<"prod", "@", "~", "/", "pw">>, <<"a", "@", "b", "@", "c">>,
     <<"@", "pw">>}

\* the raw value of a path scalar whose key is there: null or a string
RawScalars == {None} \cup {Some(r) : r \in RawPathPool}

\* the raw 'ansible' mapping with the two lists and the scalar keys given
RawAnsible(keys, config_file, log_path, inventories, vault_ids) ==
    [a \in {"inventories", "vault_ids"} \cup keys |->
        IF a = "config_file" THEN config_file
        ELSE IF a = "log_path" THEN log_path
        ELSE IF a = "inventories" THEN inventories
        ELSE vault_ids]

InitDecodePaths ==
    \E keys \in SUBSET {"config_file", "log_path"}, config_file \in RawScalars,
       inventories \in SeqsUpTo(RawPathPool, MaxLen) :
        /\ c_dict = [k \in {"ansible"} |->
                        RawAnsible(keys, config_file, Some(<<"a">>),
                                   inventories, <<>>)]
        /\ c_fs = {}

InitDecodeVaultIds ==
    \E vault_ids \in SeqsUpTo(RawVaultIdPool, MaxLen) :
        /\ c_dict = [k \in {"ansible"} |->
                        RawAnsible({}, None, None, <<>>, vault_ids)]
        /\ c_fs \in SUBSET CodecFiles

InitDecode ==
    /\ c_pc = "raw"
    /\ c_cfg = MainConfig
    /\ c_ctx = CodecContext(TRUE)
    /\ c_out = [ok |-> FALSE, config |-> MainConfig]
    /\ (InitDecodePaths \/ InitDecodeVaultIds)
    /\ IdleMerge
    /\ IdleCfg
    /\ IdleMain
    /\ IdleTool

\* schema.load(config_dict) of a raw mapping
DecodeRaw ==
    /\ c_pc = "raw"
    /\ c_out' = IF SchemaViolation(c_dict)
                THEN [ok |-> FALSE, config |-> MainConfig]
                ELSE [ok |-> TRUE,
                      config |-> MainConfigSchema_load(c_fs, c_dict, c_ctx)]
    /\ c_pc' = "loaded"
    /\ UNCHANGED <<c_cfg, c_ctx, c_dict, c_fs, mergeVars, cfgVars, mainVars,
                   toolVars>>

NextDecode == DecodeRaw

SpecDecode == InitDecode /\ [][NextDecode]_vars

\* the raw value of a scalar key of the mapping that was decoded
RawScalar(a) ==
    IF a \in DOMAIN c_dict["ansible"] THEN c_dict["ansible"][a] ELSE None

\* a path field "stays absent": the raw value is absent, null or empty
RawIsEmpty(raw) == IsNone(raw) \/ raw[1] = <<>>

\* the raw path strings of a list that are not empty
NonEmptyRaw(r) == r # <<>>

\* C13: a path scalar whose raw value is absent, null or the empty string
\* decodes to None, and the empty strings of a path list give no element;
\* every other raw string r decodes to config_dir / expanduser(r), which is
\* an absolute path.
C13_PathDecode ==
    c_pc = "loaded" =>
        /\ c_out.ok
        /\ \A a \in PathScalarAttrs :
              IF RawIsEmpty(RawScalar(a))
              THEN IsNone(c_out.config.ansible[a])
              ELSE /\ c_out.config.ansible[a]
                        = Some(JoinPath(config_dir(c_ctx),
                                        expanduser(RawScalar(a)[1])))
                   /\ c_out.config.ansible[a][1].abs
        /\ LET raw == SelectSeq(c_dict["ansible"]["inventories"], NonEmptyRaw)
           IN c_out.config.ansible["inventories"]
                 = [i \in 1..Len(raw) |->
                       JoinPath(config_dir(c_ctx), expanduser(raw[i]))]

\* the text of a vault-identity string before its first "@"
LabelOf(v) == SplitOn(v, "@")[1]

\* the text after the first "@", empty when there is none
SourceOf(v) == SubSeq(v, Len(LabelOf(v)) + 2, Len(v))

\* C14: a vault-identity string decodes to the label before the first "@"
\* and the source after it; a source that is neither empty nor "prompt" is
\* config_dir / expanduser(source) whatever files exist in the working
\* directory, and an empty or "prompt" source is kept as it is.
C14_VaultIdDecode ==
    c_pc = "loaded" =>
        /\ c_out.ok
        /\ Len(c_out.config.ansible["vault_ids"])
              = Len(c_dict["ansible"]["vault_ids"])
        /\ \A i \in 1..Len(c_dict["ansible"]["vault_ids"]) :
              LET v == c_dict["ansible"]["vault_ids"][i]
              IN c_out.config.ansible["vault_ids"][i]
                    = VaultIdOf(
                          LabelOf(v),
                          IF SourceOf(v) \in {<<>>, <<"prompt">>}
                          THEN SourceOf(v)
                          ELSE PathStr(JoinPath(config_dir(c_ctx),
                                                expanduser(SourceOf(v)))))

\* ------------------------------------- loading config files (SpecLoad)
ConfigFile3 == <<"/", "work", "/", "config.yml">>

LoadFiles == {ConfigFile1, ConfigFile2, ConfigFile3}

\* raw mappings of loadable config files: with and without the optional
\* "$replace_vars" key
RawPlain ==
    [k \in {"ansible"} |->
        [user |-> Some(<<"x">>),
         inventories |-> << <<"a">> >>,
         log_path |-> Some(<<"log">>)]]

RawOther == [k \in {"ansible"} |-> [inventories |-> << <<"c">> >>]]

RawReplaceUser ==
    [k \in {"ansible", REPLACE_VARS_MERGE_ACTION} |->
        IF k = "ansible"
        THEN [user |-> Some(<<"z">>), inventories |-> << <<"a">> >>]
        ELSE << <<"ansible", "user">> >>]

RawLoadPool == {RawPlain, RawOther, RawConfig2, RawReplaceUser}

\* the config_files arguments: one to three different files in any order
LoadFileLists ==
    {fl \in SeqsUpTo(LoadFiles, MaxConfigFiles) :
        /\ fl # <<>>
        /\ \A i, j \in 1..Len(fl) : i # j => fl[i] # fl[j]}

InitLoad ==
    /\ k_pc = "new"
    /\ k_config_files \in LoadFileLists
    /\ \E raws \in [LoadFiles -> RawLoadPool] :
          disk = [f \in LoadFiles |-> File("yaml", raws[f])]
    /\ k_config = MainConfig
    /\ k_initial = EmptyDict
    /\ k_logged = FALSE
    /\ k_calls = 0
    /\ k_save = NoSave
    /\ IdleMerge
    /\ IdleCodec
    /\ IdleMain
    /\ IdleTool

NextLoad == Load

SpecLoad == InitLoad /\ [][NextLoad]_vars

\* the raw mapping of a config file of the file system
RawOf(filename) == disk[realpath(filename)].dict

\* the file is a YAML mapping that holds nothing but settings the schema
\* declares and, optionally, the policy key
IsLoadable(filename) ==
    /\ exists(DOMAIN disk, filename)
    /\ disk[realpath(filename)].kind = "yaml"
    /\ ~SchemaViolation(Restrict(RawOf(filename),
                                 DOMAIN RawOf(filename) \ MergeActionKeys))

\* C16: every loadable config file, the only one or one of several, loads
\* successfully also when it carries "$replace_vars": the key is removed
\* before the schema decodes the mapping.
C16_PolicyKeyStripped ==
    (/\ k_pc \in {"loaded", "failed"}
     /\ k_config_files # <<>>
     /\ \A i \in 1..Len(k_config_files) : IsLoadable(k_config_files[i]))
    => k_pc = "loaded"

\* the settings decoded from a file by itself: its raw mapping without the
\* policy key, merged over the built-in defaults, in the file's own context
DecodedAlone(filename) ==
    MainConfigSchema_load(
        DOMAIN disk,
        simple_dict_merge(CONFIG_DEFAULTS,
                          Restrict(RawOf(filename),
                                   DOMAIN RawOf(filename) \ MergeActionKeys)),
        ConfigContext(PurePath(realpath(filename)), TRUE))

\* the policy a file declares itself
PolicyOf(filename) == Restrict(RawOf(filename), MergeActionKeys)

RECURSIVE FoldFiles(_, _)
\* merge(...merge(acc, d_k, p_k)..., d_n, p_n) for the files f_k..f_n
FoldFiles(acc, config_files) ==
    IF config_files = <<>> THEN acc
    ELSE FoldFiles(MainConfig_merge(acc, DecodedAlone(Head(config_files)),
                                    AttrMerger(PolicyOf(Head(config_files)))),
                   Tail(config_files))

\* C17: loading [f1, ..., fn], n >= 2, gives the left fold
\* merge(...merge(d1, d2, p2)..., dn, pn) of the settings dk decoded from fk
\* under the policy pk that fk declares itself.
C17_LeftFold ==
    (k_pc = "loaded" /\ Len(k_config_files) >= 2) =>
        k_config.ansible
            = FoldFiles(DecodedAlone(k_config_files[1]),
                        Tail(k_config_files)).ansible

\* --------------------------------------- backups of a saved file (SpecBackup)
\* the tokens that tell the versions of the saved file apart
VersionNames == <<"v1", "v2", "v3", "v4">>

\* the mapping the n-th call writes
VersionDict(n) == [k \in {"ansible"} |-> [user |-> Some(<<VersionNames[n]>>)]]

\* name followed by n times "~"
RECURSIVE Tildes(_, _)
Tildes(name, n) == IF n = 0 THEN name ELSE Tildes(name, n - 1) \o <<"~">>

\* the backups found beside the file before the first call
OldBackups == {<<>>, <<1>>, <<2>>, <<1, 2>>}

\* the file is saved under its own name or through the symbolic link /lnk
BackupPaths == {ConfigFile1, ConfigFile1ViaLink}

InitBackup ==
    /\ b_pc = "start"
    /\ \E present \in BOOLEAN, old \in OldBackups :
          b_fs = [q \in (IF present THEN {ConfigFile1} ELSE {})
                          \cup {Tildes(ConfigFile1, old[i]) : i \in 1..Len(old)} |->
                     IF q = ConfigFile1 THEN File("yaml", RawConfig1)
                     ELSE File("data", EmptyDict)]
    /\ b_versions = {}
    /\ b_saves = 0
    /\ b_out = NoBackupOut
    /\ IdleMerge
    /\ IdleCodec
    /\ IdleCfg
    /\ IdleMain
    /\ IdleVault
    /\ IdleShell
    /\ IdleRun
    /\ IdleMore

\* the versions of the file at rpath that fs held and after holds no more
EarlierVersions(versions, fs, after, rpath) ==
    IF /\ rpath \in DOMAIN fs
       /\ (rpath \notin DOMAIN after \/ after[rpath] # fs[rpath])
    THEN versions \cup {fs[rpath]}
    ELSE versions

\* the effect of one call: r is what the call returned, refused tells that
\* os.rename failed
BackupCalled(pc, path, r, result, refused) ==
    /\ b_pc' = pc
    /\ b_fs' = r.fs
    /\ b_versions' = EarlierVersions(b_versions, b_fs, r.fs, realpath(path))
    /\ b_saves' = b_saves + 1
    /\ b_out' = [raised |-> r.raised, result |-> result,
                 refused |-> refused]
    /\ UNCHANGED <<mergeVars, codecVars, cfgVars, mainVars, vaultVars, shellVars,
                   runVars, moreVars>>

\* backup_file(path)
BackupFile ==
    /\ b_pc # "idle"
    /\ b_saves < MaxSaves
    /\ \E path \in BackupPaths, io \in {"ok", "rename_fails"} :
          \E r \in {backup_file(b_fs, path, io)} :
              BackupCalled("backed_up", path, r, FALSE, r.raised)

\* save_config_dict(path, config_dict, do_backup=True)
SaveWithBackup ==
    /\ b_pc # "idle"
    /\ b_saves < MaxSaves
    /\ \E path \in BackupPaths,
          io \in {"ok", "rename_fails", "open_fails", "write_fails"} :
          \E r \in {save_config_dict(b_fs, path, VersionDict(b_saves + 1),
                                     TRUE, io)} :
              BackupCalled("saved", path, r, r.result, r.backup_failed)

NextBackup == BackupFile \/ SaveWithBackup

SpecBackup == InitBackup /\ [][NextBackup]_vars

\* q is ConfigFile1 followed by one or more "~"
IsBackupName(q) ==
    /\ Len(q) > Len(ConfigFile1)
    /\ IsPrefix(ConfigFile1, q)
    /\ \A i \in (Len(ConfigFile1) + 1)..Len(q) : q[i] = "~"

BackupNames(fs) == {q \in DOMAIN fs : IsBackupName(q)}

\* the least n >= 1 for which fs has no file ConfigFile1 followed by n "~"
ShortestFree(fs) ==
    CHOOSE n \in 1..(Cardinality(DOMAIN fs) + 1) :
        /\ Tildes(ConfigFile1, n) \notin DOMAIN fs
        /\ \A k \in 1..(n - 1) : Tildes(ConfigFile1, k) \in DOMAIN fs

\* every earlier version of the file is found under a backup name
EarlierVersionsKept ==
    \A v \in b_versions : \E q \in BackupNames(b_fs) : b_fs[q] = v

\* one call: the backups there were are left as they were; an existing file
\* whose backup is not refused goes to the shortest free backup name, and
\* nothing else becomes a backup; without a file there is no backup and no
\* exception
BackupStep ==
    b_saves' = b_saves + 1 =>
        /\ \A q \in BackupNames(b_fs) : q \in DOMAIN b_fs' /\ b_fs'[q] = b_fs[q]
        /\ IF ConfigFile1 \in DOMAIN b_fs
           THEN \/ /\ b_out'.refused
                   /\ BackupNames(b_fs') = BackupNames(b_fs)
                   /\ b_fs'[ConfigFile1] = b_fs[ConfigFile1]
                \/ /\ ~b_out'.refused
                   /\ BackupNames(b_fs') = BackupNames(b_fs)
                          \cup {Tildes(ConfigFile1, ShortestFree(b_fs))}
                   /\ b_fs'[Tildes(ConfigFile1, ShortestFree(b_fs))]
                         = b_fs[ConfigFile1]
           ELSE /\ BackupNames(b_fs') = BackupNames(b_fs)
                /\ ~b_out'.raised

\* C18: backup_file renames an existing file to the shortest name followed by
\* one or more "~" that does not exist yet and never overwrites or removes a
\* backup, so after any sequence of saves with backup every earlier version
\* of the file is still there under a backup name; without a file no backup
\* is made and nothing is raised.
C18_BackupsKept == []EarlierVersionsKept /\ [][BackupStep]_vars

\* three calls were made over an existing file with two backups beside it:
\* three versions lie in backups, the last of them under the fifth name
C18_Witness ==
    /\ b_saves = 3
    /\ Cardinality(b_versions) = 3
    /\ Tildes(ConfigFile1, 5) \in DOMAIN b_fs

\* ----------------------------------------- the lifecycle of main (SpecMain)
\* the config files of the run and their backups, as the file system holds them
ConfigFilesOn(fs) ==
    Restrict(fs, {q \in DOMAIN fs :
                     \E f \in {ConfigFile1, ConfigFile2} : IsPrefix(f, q)})

\* the states of the lifecycle
Unloaded == k_pc \in {"new", "failed"}
Loaded == k_pc \in {"loaded", "saved"}
SaveAttempted == k_pc = "saved"

\* one step of main in the lifecycle: the load is the step from "new", it
\* happens before every setter call and before the save; the settings change
\* only between the load and the save attempt; the config file changes only in
\* the step that is the save attempt; a loaded run stays loaded and a save
\* attempt is final
LifecycleStep ==
    /\ k_pc' # k_pc =>
          \/ /\ k_pc = "new" /\ k_pc' \in {"loaded", "failed"}
             /\ k_calls = 0 /\ ~k_save.called
          \/ k_pc = "loaded" /\ k_pc' = "saved"
    /\ (k_config' # k_config \/ k_calls' # k_calls) =>
          \/ k_pc = "new" /\ k_pc' = "loaded" /\ k_calls' = 0
          \/ k_pc = "loaded" /\ k_pc' = "loaded"
    /\ ConfigFilesOn(disk') # ConfigFilesOn(disk) =>
          k_pc = "loaded" /\ k_pc' = "saved"
    /\ k_save' # k_save => k_pc = "loaded" /\ k_pc' = "saved"
    /\ Loaded => Loaded'
    /\ SaveAttempted => SaveAttempted' /\ UNCHANGED <<k_config, k_calls, k_save, disk>>

\* setters and save happen on loaded settings only, and a run that ends with
\* the return code 0 has loaded them
LifecycleState ==
    /\ (k_calls > 0 \/ k_save.called) => Loaded
    /\ a_rc = Some(0) => Loaded

ReplacedChars == {"-", ".", "$", "="}

\* str.upper() of one character
Upper(c) == IF c = "a" THEN "A" ELSE IF c = "b" THEN "B" ELSE c

\* to_shell_var_name(s)
to_shell_var_name(str) ==
    [i \in 1..Len(str) |-> IF str[i] \in ReplacedChars THEN "_" ELSE Upper(str[i])]

\* the characters shlex.quote leaves unquoted (those of them drawn)
SafeChars == {"a", "b", "A", "B", "1", "_", "-", ".", "=", "+"}

\* shlex.quote(s), the closing and reopening of a quote one token
shlex_quote(str) ==
    IF str = <<>> THEN <<"'", "'">>
    ELSE IF \A i \in 1..Len(str) : str[i] \in SafeChars THEN str
    ELSE <<"'">>
         \o [i \in 1..Len(str) |-> IF str[i] = "'" THEN "'\"'\"'" ELSE str[i]]
         \o <<"'">>

RECURSIVE JoinQuoted(_)
\* " ".join([shlex.quote(str(item)) for item in value])
JoinQuoted(items) ==
    IF items = <<>> THEN <<>>
    ELSE IF Len(items) = 1 THEN shlex_quote(items[1])
    ELSE shlex_quote(items[1]) \o <<" ">> \o JoinQuoted(Tail(items))

\* the values of a mapping: None, a string, a sequence of strings or a mapping
NoneValue == [kind |-> "none", val |-> <<>>]
StrValue(str) == [kind |-> "str", val |-> str]
SeqValue(items) == [kind |-> "seq", val |-> items]
DictValue(pairs) == [kind |-> "dict", val |-> pairs]

\* the line of one variable that is not a mapping: nothing for None
ShellVarLine(var_name, value, export_vars) ==
    IF value.kind = "none" THEN <<>>
    ELSE << (IF export_vars THEN <<"export ">> ELSE <<>>)
            \o var_name \o <<"=">>
            \o (IF value.kind = "seq"
                THEN <<"(">> \o JoinQuoted(value.val) \o <<")">>
                ELSE shlex_quote(value.val)) >>

RECURSIVE dict_to_shell_vars(_, _, _)
\* dict_to_shell_vars(dict_value, var_prefix, export_vars) without
\* preprocess_var; dict_value in the order of its items
dict_to_shell_vars(dict_value, var_prefix, export_vars) ==
    IF dict_value = <<>> THEN <<>>
    ELSE LET key      == dict_value[1][1]
             value    == dict_value[1][2]
             var_name == var_prefix \o to_shell_var_name(key)
         IN (IF value.kind = "dict"
             THEN dict_to_shell_vars(value.val, var_name \o <<"_">>, export_vars)
             ELSE ShellVarLine(var_name, value, export_vars))
            \o dict_to_shell_vars(Tail(dict_value), var_prefix, export_vars)

\* the characters of the keys drawn: letters, a digit, "_", characters
\* to_shell_var_name lists and characters it does not list
KeyChars == {"a", "B", "1", "_", "-", "$", " ", "+", "#"}

ShellKeys == SeqsUpTo(KeyChars, MaxKeyLen) \ {<<>>}

\* the keys of a schema: field names
FieldKeys == {<<"a">>, <<"a", "_">>, <<"b", "a">>}

ShellValues ==
    {NoneValue, StrValue(<<"a", "b">>), StrValue(<<"a", " ", "'">>),
     SeqValue(<< <<"a">>, <<>> >>)}

\* the mappings exported: env_vars with any key, and a serialized
\* configuration whose "ansible" mapping holds a field
InitShell ==
    /\ s_pc = "start"
    /\ \/ /\ \E k \in ShellKeys, v \in ShellValues : s_dict = << <<k, v>> >>
          /\ s_prefix = <<>>
          /\ s_export = TRUE
       \/ /\ \E k1, k2 \in FieldKeys, v \in ShellValues :
                s_dict = << <<k1, DictValue(<< <<k2, v>>, <<k1, v>> >>)>> >>
          /\ s_prefix = <<"C", "F", "G", "_">>
          /\ s_export = FALSE
    /\ s_lines = <<>>
    /\ IdleMerge
    /\ IdleCodec
    /\ IdleCfg
    /\ IdleMain
    /\ IdleVault
    /\ IdleBackup
    /\ IdleRun
    /\ IdleMore

\* dict_to_shell_vars(dict_value, var_prefix, export_vars)
DictToShellVars ==
    /\ s_pc = "start"
    /\ s_lines' = dict_to_shell_vars(s_dict, s_prefix, s_export)
    /\ s_pc' = "done"
    /\ UNCHANGED <<s_dict, s_prefix, s_export, mergeVars, codecVars, cfgVars,
                   mainVars, vaultVars, backupVars, runVars, moreVars>>

NextShell == DictToShellVars

SpecShell == InitShell /\ [][NextShell]_vars

\* the variable name of an emitted line: what stands before the first "=",
\* after the word export
NameOfLine(line) ==
    LET text == IF line[1] = "export " THEN Tail(line) ELSE line
    IN SplitOn(text, "=")[1]

NameChars == {"A", "B", "C", "F", "G", "1", "_"}

\* C20: every variable name the shell export emits consists of upper-case
\* letters, digits and "_" only, whatever the keys of the mapping are.
C20_ShellNames ==
    s_pc = "done" =>
        \A i \in 1..Len(s_lines) :
            \A j \in 1..Len(NameOfLine(s_lines[i])) :
                NameOfLine(s_lines[i])[j] \in NameChars

\* --------------------------- the changes a run of main makes (SpecRun)
\* the subcommands (args.func) and the options after which main returns
RunFuncs ==
    {"pwgen", "relpath", "find-all-vaults", "decrypt-all-vaults",
     "encrypt-vault", "rekey-vaults"}

\* the subcommands with func_require_config=False
NoConfigFuncs == {"pwgen", "relpath"}

RunOptions == {"pwgen", "show", "view", "decrypt", "encrypt", "edit"}

\* the configured vault files drawn: none, encrypted, plain and missing ones
RunVaultKinds ==
    {<<>>, <<"vault">>, <<"plain">>, <<"missing">>, <<"vault", "vault">>,
     <<"plain", "plain">>, <<"missing", "missing">>, <<"missing", "vault">>}

\* the command lines drawn: at most one subcommand or returning option, with
\* and without --reconfigure and --read-only
RunArgs ==
    {a \in [func : RunFuncs \cup {"none"}, option : RunOptions \cup {"none"},
            reconfigure : BOOLEAN, read_only : BOOLEAN] :
        a.func = "none" \/ a.option = "none"}

\* password_file: no vault password file is configured ("none"), the
\* configured one does not exist ("missing") or exists ("exists"); pwd_file:
\* the file --pwgen or the pwgen subcommand is to write exists
RunEnvs ==
    {[config_dir |-> d, password_file |-> pw, pwd_file |-> pf,
      vault_files |-> VaultFilesOf(kinds), vault_ids |-> ids] :
        d \in BOOLEAN, pw \in {"none", "missing", "exists"}, pf \in BOOLEAN,
        kinds \in RunVaultKinds, ids \in {<<>>, <<"prod", "dev">>}}

\* the tools are found and the config files load; what the user picks at the
\* selections (0 is "Cancel") and the exit status of the children
InitRun ==
    /\ r_pc = "start"
    /\ r_args \in RunArgs
    /\ r_env \in RunEnvs
    /\ r_in \in [choice : 0..MaxVaultFiles, id_choice : 0..1, status : {0, 1}]
    /\ r_done = {}
    /\ r_out = NoRunOut
    /\ IdleMerge
    /\ IdleCodec
    /\ IdleCfg
    /\ IdleMain
    /\ IdleVault
    /\ IdleBackup
    /\ IdleShell
    /\ IdleMore

\* main returns rc, or an exception leaves it, having made the changes done
RunEnds(out, cancelled, done) ==
    /\ r_pc' = "done"
    /\ r_out' = [rc |-> out.rc, raised |-> out.raised, cancelled |-> cancelled]
    /\ r_done' = r_done \cup done
    /\ UNCHANGED <<r_args, r_env, r_in, mergeVars, codecVars, cfgVars,
                   mainVars, vaultVars, backupVars, shellVars, moreVars>>

\* main goes on to pc, having made the changes done
RunGoes(pc, done) ==
    /\ r_pc' = pc
    /\ r_done' = r_done \cup done
    /\ UNCHANGED <<r_args, r_env, r_in, r_out, mergeVars, codecVars, cfgVars,
                   mainVars, vaultVars, backupVars, shellVars, moreVars>>

\* pwgen(pwd_file) with a file name: False when the file exists, else the
\* password is written to it
pwgen(file_exists) ==
    IF file_exists THEN [ok |-> FALSE, done |-> {}]
    ELSE [ok |-> TRUE, done |-> {"password_written"}]

\* the changes made where a child ended with status 0
ChildDone(out, changes) ==
    IF \E i \in 1..Len(out.calls) : out.calls[i] = 0 THEN changes ELSE {}

\* the user cancelled the selection of a file among items
CancelledAmong(items, choice) ==
    Len(items) # 1 /\ IsNone(select_item(items, choice))

\* the user cancelled a selection of the vault command
VaultCancelled(command, env, in) ==
    IF command \in {"view", "decrypt"}
    THEN /\ find_all_vaults(env.vault_files, <<>>) # <<>>
         /\ CancelledAmong(find_all_vaults(env.vault_files, <<>>), in.choice)
    ELSE IF command = "edit"
    THEN IF find_all_vaults(env.vault_files, <<>>) # <<>>
         THEN CancelledAmong(find_all_vaults(env.vault_files, <<>>), in.choice)
         ELSE /\ Len(SelectSeq(env.vault_files, MissingVault)) > 1
              /\ in.choice \notin 1..Len(SelectSeq(env.vault_files, MissingVault))
    ELSE IF command = "encrypt"
    THEN /\ SelectSeq(env.vault_files, Unencrypted) # <<>>
         /\ \/ CancelledAmong(SelectSeq(env.vault_files, Unencrypted), in.choice)
            \/ /\ Len(env.vault_ids) > 1
               /\ IsNone(select_item(env.vault_ids, in.id_choice))
    ELSE FALSE

\* the vault command functions main calls, by the name of the command
RunVaultCommand(command, env, in) ==
    IF command = "view"
    THEN view_vault_command(env.vault_files, <<>>, in.choice, in.status)
    ELSE IF command = "decrypt"
    THEN decrypt_vault_command(env.vault_files, <<>>, in.choice, in.status)
    ELSE IF command = "encrypt"
    THEN encrypt_vault_command(env.vault_files, env.vault_ids, None, in.choice,
                               in.id_choice, in.status)
    ELSE IF command = "edit"
    THEN edit_vault_command(env.vault_files, <<>>, in.choice, in.status)
    ELSE IF command = "decrypt-all"
    THEN decrypt_all_vaults_command(
             env.vault_files, <<>>,
             [i \in 1..(MaxVaultFiles + 1) |-> in.status])
    ELSE rekey_all_vaults_command(
             env.vault_files, <<>>,
             [i \in 1..(MaxVaultFiles + 1) |-> in.status])

\* what a vault command changes where its child succeeds
VaultChange(command) ==
    IF command = "view" THEN {}
    ELSE IF command \in {"decrypt", "decrypt-all"} THEN {"vault_decrypted"}
    ELSE IF command = "encrypt" THEN {"vault_encrypted"}
    ELSE IF command = "edit" THEN {"vault_edited"}
    ELSE {"vault_rekeyed"}

\* main: "if args.func is not None and not args.func_require_config:
\* return args.func(args=args)"
RunFunc ==
    /\ r_pc = "start"
    /\ r_args.func \in NoConfigFuncs
    /\ IF r_args.func = "pwgen"
       THEN RunEnds(VaultReturn(IF pwgen(r_env.pwd_file).ok THEN 0 ELSE 1),
                    FALSE, pwgen(r_env.pwd_file).done)
       ELSE RunEnds(VaultReturn(0), FALSE, {})

\* main: "if args.pwd_file:" refused in read-only mode, else pwgen
RunPwgen ==
    /\ r_pc = "start"
    /\ r_args.func \notin NoConfigFuncs
    /\ r_args.option = "pwgen"
    /\ IF r_args.read_only THEN RunEnds(VaultReturn(1), FALSE, {})
       ELSE RunEnds(VaultReturn(IF pwgen(r_env.pwd_file).ok THEN 0 ELSE 1),
                    FALSE, pwgen(r_env.pwd_file).done)

\* main: the tools are found and the Configurator is built
RunLoad ==
    /\ r_pc = "start"
    /\ r_args.func \notin NoConfigFuncs
    /\ r_args.option # "pwgen"
    /\ RunGoes("loaded", {})

\* the name of the vault command a subcommand runs
FuncCommand(func) ==
    IF func = "decrypt-all-vaults" THEN "decrypt-all"
    ELSE IF func = "encrypt-vault" THEN "encrypt"
    ELSE "rekey"

\* main: "if args.func is not None: return args.func(config=config, args=args)"
RunFuncConfig ==
    /\ r_pc = "loaded"
    /\ r_args.func # "none"
    /\ IF r_args.func = "find-all-vaults" THEN RunEnds(VaultReturn(0), FALSE, {})
       ELSE \E out \in {RunVaultCommand(FuncCommand(r_args.func), r_env, r_in)} :
               RunEnds(out, VaultCancelled(FuncCommand(r_args.func), r_env, r_in),
                       ChildDone(out, VaultChange(FuncCommand(r_args.func))))

\* main: the options that print the configuration and return 0
RunShow ==
    /\ r_pc = "loaded"
    /\ r_args.func = "none"
    /\ r_args.option = "show"
    /\ RunEnds(VaultReturn(0), FALSE, {})

\* main: --view-vault, --decrypt-vault, --encrypt-vault, --edit-vault
RunVaultOption ==
    /\ r_pc = "loaded"
    /\ r_args.func = "none"
    /\ r_args.option \in {"view", "decrypt", "encrypt", "edit"}
    /\ \E out \in {RunVaultCommand(r_args.option, r_env, r_in)} :
          RunEnds(out, VaultCancelled(r_args.option, r_env, r_in),
                  ChildDone(out, VaultChange(r_args.option)))

\* main: os.makedirs(CONFIG_DIR) and the generation of the vault password
\* file, both unless the run is read-only
RunPrepare ==
    /\ r_pc = "loaded"
    /\ r_args.func = "none"
    /\ r_args.option = "none"
    /\ RunGoes("prepared",
               (IF ~r_args.read_only /\ ~r_env.config_dir
                THEN {"config_dir_created"} ELSE {})
               \cup (IF ~r_args.read_only /\ r_env.password_file = "missing"
                     THEN {"password_generated"} ELSE {}))

\* main: --reconfigure is refused in read-only mode, else the user is asked
\* for the user name; then the setters are called
RunConfigure ==
    /\ r_pc = "prepared"
    /\ IF r_args.reconfigure /\ r_args.read_only
       THEN RunEnds(VaultReturn(1), FALSE, {})
       ELSE RunGoes("configured", {})

\* main: --reconfigure asks for the sudo password (matched tells that two
\* entries agreed within the retries) and for the vault file it is written to
RunReconfigure ==
    /\ r_pc = "configured"
    /\ IF ~r_args.reconfigure THEN RunGoes("reconfigured", {})
       ELSE \E matched \in BOOLEAN :
               IF ~matched THEN RunEnds(VaultReturn(1), FALSE, {})
               ELSE IF IsNone(select_item(r_env.vault_files, r_in.choice))
               THEN RunEnds(VaultReturn(1), TRUE, {})
               ELSE RunGoes("reconfigured", {"vault_written"})

\* main: "if not args.read_only: config.save(...)"; changed tells whether the
\* setters changed the settings
RunSave ==
    /\ r_pc = "reconfigured"
    /\ \E changed \in BOOLEAN :
          RunGoes("saved",
                  IF ~r_args.read_only /\ changed THEN {"config_saved"} ELSE {})

\* main: config.print_info() and return 0
RunPrintInfo ==
    /\ r_pc = "saved"
    /\ RunEnds(VaultReturn(0), FALSE, {})

NextRun ==
    \/ RunFunc
    \/ RunPwgen
    \/ RunLoad
    \/ RunFuncConfig
    \/ RunShow
    \/ RunVaultOption
    \/ RunPrepare
    \/ RunConfigure
    \/ RunReconfigure
    \/ RunSave
    \/ RunPrintInfo

SpecRun == InitRun /\ [][NextRun]_vars

\* C21: when the user cancels a selection, the run returns 1 and has changed
\* nothing: no config file saved, no vault file written, no password file
\* generated, no directory created.
C21_CancelChangesNothing ==
    (r_pc = "done" /\ r_out.cancelled) =>
        /\ r_out.rc = Some(1)
        /\ r_done = {}

\* C22: a run with --read-only changes no configuration or variable file,
\* whatever the other options and subcommands are: nothing is saved,
\* generated, created, written, decrypted, encrypted, edited or rekeyed.
C22_ReadOnlyChangesNothing ==
    (r_pc = "done" /\ r_args.read_only) => r_done = {}

\* ------------------------------------ further claims on SpecCfg and SpecMain
\* p is absolute and os.path.realpath leaves it as it is
IsResolvedPath(p) == p.abs /\ PurePath(realpath(PathStr(p))) = p

\* C23: after the load and after any sequence of setter calls every path
\* field of the settings and every path source of a vault identity is an
\* absolute, symlink-resolved, normalized path.
C23_PathsResolved ==
    k_pc \in {"loaded", "saved"} =>
        /\ \A a \in PathScalarAttrs :
              ~IsNone(k_config.ansible[a]) => IsResolvedPath(k_config.ansible[a][1])
        /\ \A L \in PathListAttrs :
              \A i \in 1..Len(k_config.ansible[L]) :
                  IsResolvedPath(k_config.ansible[L][i])
        /\ \A i \in 1..Len(k_config.ansible.vault_ids) :
              source_is_path(k_config.ansible.vault_ids[i]) =>
                  IsResolvedPath(PurePath(k_config.ansible.vault_ids[i].source))

\* ----------------------------------------------- further claims on SpecLoad
\* the settings each of the files gives when it is decoded by itself
AloneSettings ==
    {DecodedAlone(k_config_files[k]).ansible : k \in 1..Len(k_config_files)}

\* C24: in a multi-file load each file is decoded from its own raw mapping
\* over the built-in defaults only, so every scalar and every list element of
\* the loaded settings is one that some file gives when decoded by itself:
\* no value of an earlier file is resolved against the directory of a later
\* one.
C24_DecodedAlone ==
    (k_pc = "loaded" /\ Len(k_config_files) >= 2) =>
        /\ \A a \in ScalarAttrs :
              \E d \in AloneSettings : k_config.ansible[a] = d[a]
        /\ \A L \in ListAttrs :
              \A i \in 1..Len(k_config.ansible[L]) :
                  \E d \in AloneSettings :
                      \E j \in 1..Len(d[L]) : k_config.ansible[L][i] = d[L][j]

\* ------------------------------------------------ further claims on SpecCfg
\* C25: a Configurator built with no config files holds fresh all-default
\* settings: the constructor does not raise, the settings are the defaults,
\* the snapshot is their dictionary and config_changed is False.
C25_NoFilesLoads ==
    (k_config_files = <<>> /\ k_pc # "new") =>
        /\ k_pc \in {"loaded", "saved"}
        /\ k_calls = 0 => k_config.ansible = MainConfig.ansible
        /\ k_calls = 0 => ~config_changed(k_config, k_initial)

\* ----------------------------------------------- further claims on SpecMain
\* a command line that names no setting: no -u, no -i, no --show
NoSettingOption ==
    /\ IsNone(a_args.user)
    /\ a_args.inventory = <<>>
    /\ ~a_args.show

\* C26: a default run of main whose command line names no setting calls no
\* setter on the loaded settings, whatever loadable configuration it
\* started from: config_changed stays False and the config file is neither
\* backed up nor written.
C26_DefaultRunKeepsSettings ==
    (/\ NoSettingOption
     /\ a_pc \in {"configured", "saved", "done"}
     /\ k_pc \in {"loaded", "saved"}) =>
        /\ k_calls = 0
        /\ ~config_changed(k_config, k_initial)
        /\ ~k_save.write_attempted
        /\ ~k_save.backup_failed

\* --------------------------------------------- find_all_vaults (SpecFind)
\* the files of the harness: two that can be configured as vault files and
\* lie below an inventory directory, and one that only lies below one
FindNames == {<<"v", 1>>, <<"v", 2>>, <<"g", 1>>}

\* what the files hold
FindKinds == [FindNames -> {"plain", "vault"}]

\* ansible.vault_files: up to MaxVaultFiles names, a name may come twice
FindVaultFiles ==
    UNION {[1..n -> {<<"v", 1>>, <<"v", 2>>}] : n \in 0..MaxVaultFiles}

\* what os.walk meets below one inventory directory
FindWalks == {<<>>, << <<"g", 1>> >>, << <<"v", 1>> >>,
              << <<"g", 1>>, <<"v", 1>> >>}

FilesOf(names, kinds) ==
    [i \in 1..Len(names) |-> [name |-> names[i], kind |-> kinds[names[i]]]]

\* no inventory, one, or two: two inventories may lie in the same directory
InitFind ==
    /\ f_pc = "start"
    /\ \E kinds \in FindKinds :
          /\ \E names \in FindVaultFiles : f_vault_files = FilesOf(names, kinds)
          /\ \E w1 \in FindWalks, w2 \in FindWalks :
                f_walk = FilesOf(w1 \o w2, kinds)
    /\ f_found = <<>>
    /\ IdleMerge
    /\ IdleCodec
    /\ IdleCfg
    /\ IdleMain
    /\ IdleVault
    /\ IdleBackup
    /\ IdleShell
    /\ IdleRun
    /\ IdleExport

\* find_all_vaults_command: every file find_all_vaults yields is printed
FindAllVaults ==
    /\ f_pc = "start"
    /\ f_found' = find_all_vaults(f_vault_files, f_walk)
    /\ f_pc' = "done"
    /\ UNCHANGED <<f_vault_files, f_walk, mergeVars, codecVars, cfgVars,
                   mainVars, vaultVars, backupVars, shellVars, runVars,
                   exportVars>>

NextFind == FindAllVaults

SpecFind == InitFind /\ [][NextFind]_vars

\* C27: find_all_vaults yields each encrypted vault file at most once: a file
\* of vault_files that also lies below an inventory directory, a file listed
\* twice in vault_files and a file reachable from two inventories are each
\* reported once.
C27_YieldedOnce ==
    f_pc = "done" =>
        \A i \in 1..Len(f_found) : \A j \in 1..Len(f_found) :
            f_found[i].name = f_found[j].name => i = j

\* ------------------------------------------------ to_shell_vars (SpecExport)
\* sep_at_end(path): os.sep is appended unless the path ends with it
sep_at_end(path) ==
    IF path # <<>> /\ path[Len(path)] = "/" THEN path ELSE path \o <<"/">>

\* os.path.dirname of a normalized absolute path
dirname(s) ==
    LET p == PurePath(s)
    IN IF p.parts = <<>> THEN s
       ELSE PathStr([abs |-> p.abs, parts |-> SubSeq(p.parts, 1, Len(p.parts) - 1)])

\* os.path.join(inventory_dir, name) for an inventory_dir that ends with os.sep
os_path_join(dir, name) == dir \o <<name>>

\* Configurator.get_ansible_inventory_dirs(path_separator_at_end=True): the
\* real path of each inventory, or its directory when it is not a directory
get_ansible_inventory_dirs(inventories) ==
    [i \in 1..Len(inventories) |->
        sep_at_end(IF inventories[i].isdir THEN realpath(inventories[i].path)
                   ELSE dirname(realpath(inventories[i].path)))]

\* the names of the two variables preprocess_shell_var filters
CFG_ANSIBLE_VARS_FILES == <<"CFG_ANSIBLE_VARS_FILES">>
CFG_ANSIBLE_VAULT_FILES == <<"CFG_ANSIBLE_VAULT_FILES">>

\* "# {filename} {file_type} file is in {where} inventory directory"
ShellComment(filename, var_name, where) ==
    <<"#", filename,
      IF var_name = CFG_ANSIBLE_VARS_FILES THEN "variable" ELSE "vault", where>>

RECURSIVE FilterFiles(_, _, _, _)
\* the inner loop of preprocess_shell_var, "for filename in value", for one
\* inventory_dir; acc holds valid_filenames and shell_commands so far
FilterFiles(var_name, inventory_dir, value, acc) ==
    IF value = <<>> THEN acc
    ELSE FilterFiles(var_name, inventory_dir, Tail(value),
            IF IsPrefix(sep_at_end(os_path_join(inventory_dir, "group_vars")),
                        Head(value))
            THEN [acc EXCEPT !.shell_commands =
                     Append(@, ShellComment(Head(value), var_name, "group_vars"))]
            ELSE IF IsPrefix(sep_at_end(os_path_join(inventory_dir, "host_vars")),
                             Head(value))
            THEN [acc EXCEPT !.shell_commands =
                     Append(@, ShellComment(Head(value), var_name, "host_vars"))]
            ELSE [acc EXCEPT !.valid_filenames = Append(@, Head(value))])

RECURSIVE FilterInventories(_, _, _, _)
\* the outer loop of preprocess_shell_var, "for inventory_dir in
\* inventory_dirs": valid_filenames and shell_commands are created before it
FilterInventories(var_name, inventory_dirs, value, acc) ==
    IF inventory_dirs = <<>> THEN acc
    ELSE FilterInventories(var_name, Tail(inventory_dirs), value,
            FilterFiles(var_name, Head(inventory_dirs), value, acc))

\* preprocess_shell_var(var_name, value) inside to_shell_vars: the value the
\* variable is exported with, None for a variable that is not exported, and
\* the comment lines
preprocess_shell_var(var_name, value, inventory_dirs) ==
    IF var_name \in {CFG_ANSIBLE_VARS_FILES, CFG_ANSIBLE_VAULT_FILES}
    THEN LET acc == FilterInventories(var_name, inventory_dirs, value,
                        [valid_filenames |-> <<>>, shell_commands |-> <<>>])
         IN [value |-> IF Len(acc.valid_filenames) > 0
                       THEN Some(acc.valid_filenames) ELSE None,
             shell_commands |-> acc.shell_commands]
    ELSE [value |-> Some(value), shell_commands |-> <<>>]

\* the variables of the harness: the two filtered ones and one that is not
ExportVarNames ==
    {CFG_ANSIBLE_VARS_FILES, CFG_ANSIBLE_VAULT_FILES, <<"CFG_ANSIBLE_USER_SCRIPTS">>}

\* configured files: in group_vars and host_vars of the inventory /etc/inv,
\* in group_vars of /srv, and below no inventory
ExportFiles ==
    {<<"/", "etc", "/", "inv", "/", "group_vars", "/", "a">>,
     <<"/", "etc", "/", "inv", "/", "host_vars", "/", "b">>,
     <<"/", "srv", "/", "group_vars", "/", "a">>,
     <<"/", "etc", "/", "vars.yml">>}

\* configured inventories: a directory, and a hosts file in another one
ExportInventories ==
    {[path |-> <<"/", "etc", "/", "inv">>, isdir |-> TRUE],
     [path |-> <<"/", "srv", "/", "hosts">>, isdir |-> FALSE]}

InitExport ==
    /\ x_pc = "start"
    /\ x_var_name \in ExportVarNames
    /\ x_value \in UNION {[1..n -> ExportFiles] : n \in 0..MaxExportFiles}
    /\ x_inventories \in
          UNION {[1..n -> ExportInventories] : n \in 0..MaxInventories}
    /\ x_out = NoExportOut
    /\ IdleMerge
    /\ IdleCodec
    /\ IdleCfg
    /\ IdleMain
    /\ IdleVault
    /\ IdleBackup
    /\ IdleShell
    /\ IdleRun
    /\ IdleFind

\* to_shell_vars: dict_to_shell_vars calls preprocess_shell_var for the
\* variable with the inventory directories of the configuration
ToShellVars ==
    /\ x_pc = "start"
    /\ x_out' = preprocess_shell_var(x_var_name, x_value,
                                     get_ansible_inventory_dirs(x_inventories))
    /\ x_pc' = "done"
    /\ UNCHANGED <<x_var_name, x_value, x_inventories, mergeVars, codecVars,
                   cfgVars, mainVars, vaultVars, backupVars, shellVars, runVars,
                   findVars>>

NextExport == ToShellVars

SpecExport == InitExport /\ [][NextExport]_vars

\* the file lies under group_vars/ or host_vars/ of some configured inventory
UnderInventory(filename) ==
    \E i \in 1..Len(x_inventories) :
        \E sub \in {"group_vars", "host_vars"} :
            IsPrefix(get_ansible_inventory_dirs(x_inventories)[i] \o <<sub, "/">>,
                     filename)

NotUnderInventory(filename) == ~UnderInventory(filename)

\* C28: for any number of inventories CFG_ANSIBLE_VARS_FILES and
\* CFG_ANSIBLE_VAULT_FILES are exported with exactly the configured files
\* that lie under no inventory's group_vars/ or host_vars/ directory, each
\* once and in the configured order; with no inventories every configured
\* file is exported.
C28_ExportedFiles ==
    (/\ x_pc = "done"
     /\ x_var_name \in {CFG_ANSIBLE_VARS_FILES, CFG_ANSIBLE_VAULT_FILES}) =>
        (IF IsNone(x_out.value) THEN <<>> ELSE x_out.value[1])
            = SelectSeq(x_value, NotUnderInventory)

\* the real path of the last of the config files loaded
LastConfigFile == realpath(k_config_files[Len(k_config_files)])

\* the path is the file or one of the backups rpath~, rpath~~, ... of it
IsFileOrBackup(path, rpath) ==
    /\ IsPrefix(rpath, path)
    /\ \A i \in (Len(rpath) + 1)..Len(path) : path[i] = "~"

\* after a load of several files the config context is that of the last one
ContextOfLast ==
    (k_pc \in {"loaded", "saved"} /\ Len(k_config_files) >= 2) =>
        k_config.config_context = Some(ConfigContext(PurePath(LastConfigFile), TRUE))

\* a save() without a target after a load of several files goes to the last
\* file with the paths written relative to its directory, and the step
\* changes nothing but that file and its backups
SaveToLast ==
    (/\ IsSaveStep
     /\ Len(k_config_files) >= 2
     /\ NoFilename(k_save'.filename)) =>
        /\ k_save'.called =>
              /\ k_save'.target = LastConfigFile
              /\ k_save'.dict = MainConfigSchema_dump(k_config,
                                    ConfigContext(PurePath(LastConfigFile), TRUE))
        /\ \A path \in (DOMAIN disk) \cup (DOMAIN disk') :
              ~IsFileOrBackup(path, LastConfigFile) =>
                  /\ path \in DOMAIN disk
                  /\ path \in DOMAIN disk'
                  /\ disk'[path] = disk[path]

\* C29: after a load of the files f1..fn the config context is that of fn: a
\* save() without a target writes the paths relative to fn's directory, writes
\* only fn and neither writes, renames nor backs up f1..f(n-1).
C29_SaveToLast == []ContextOfLast /\ [][SaveToLast]_vars

\* a save() without a target after a load of two files that backed up and
\* rewrote the last one and left the first as it was
C29_Witness ==
    /\ k_pc = "saved"
    /\ Len(k_config_files) >= 2
    /\ NoFilename(k_save.filename)
    /\ k_save.result
    /\ k_save.do_backup
    /\ LastConfigFile \o <<"~">> \in DOMAIN disk
    /\ disk[LastConfigFile] = File("yaml", k_save.dict)
    /\ disk[realpath(k_config_files[1])] = File("yaml", RawConfig1)

\* the step is a call of save() that follows a save that returned True
IsSaveAgainStep == k_pc = "saved" /\ k_pc' = "saved_again"

\* a call of save leaves the settings, the config context and the snapshot
\* taken at load as they were, and with them config_changed; a save() that
\* follows a successful save of changed settings is no no-op: it calls
\* save_config_dict again and, the operating system permitting, the file
\* holds the settings after it
SaveKeepsState ==
    /\ (IsSaveStep \/ IsSaveAgainStep) =>
          /\ k_config' = k_config
          /\ k_initial' = k_initial
          /\ config_changed(k_config', k_initial')
                = config_changed(k_config, k_initial)
    /\ (IsSaveAgainStep /\ k_calls > 0 /\ config_changed(k_config, k_initial)) =>
          /\ k_save'.called
          /\ k_save'.io = "ok" =>
                /\ k_save'.result
                /\ k_save'.write_attempted
                /\ disk'[k_save'.target] = File("yaml", k_save'.dict)

\* C30: Configurator.save, whether it succeeds, fails or is a no-op, with
\* or without a target, leaves the in-memory settings, the config context
\* and the load-time snapshot unchanged; config_changed has the same value
\* after it; a second save() after a successful one writes the file again
\* when the settings had been changed.
C30_SaveKeepsState == [][SaveKeepsState]_vars

\* changed settings were saved with success and then written once more by a
\* second save(), config_changed still being True
C30_Witness ==
    /\ k_pc = "saved_again"
    /\ k_calls > 0
    /\ config_changed(k_config, k_initial)
    /\ k_save.result
    /\ k_save.write_attempted
    /\ disk[k_save.target] = File("yaml", k_save.dict)

====
